---- MODULE Spec2Model ----
(***************************************************************************)
(* Model of the market layer of oikos (src/oikos/microeconomia/mercado.py, *)
(* src/oikos/utils/parser.py, src/oikos/utilidades/validadores.py): the    *)
(* curves, their evaluators and elasticities, equilibrio, excedentes, the  *)
(* equation normalizer and the validators.                                 *)
(*                                                                         *)
(* Numbers are exact rationals <<n, d>> (d > 0, lowest terms): Python      *)
(* floats and SymPy numbers are modelled by the real value they stand for; *)
(* IEEE rounding is below the level of this model.  Curves are linear in   *)
(* P and Q, which is the family the library documents and SymPy's linear   *)
(* solver decides.                                                         *)
(***************************************************************************)
EXTENDS Integers, Sequences, FiniteSets, TLC

(* ------------------------------ bounds --------------------------------- *)
MaxK == 1        \* intercepts of the enumerated equations: -MaxK..MaxK
MaxM == 1        \* slopes of the enumerated equations: -MaxM..MaxM
MaxArg == 1      \* numeric arguments passed by a caller: -1..MaxArg
MaxCadena == 1   \* how many calls in a row may take their argument from the call before
MaxReloj == 3    \* how many times the memoized function may run
MaxElementos == 2  \* how many elements a canvas may hold

(* --------------------------- rational numbers -------------------------- *)
Abs(x) == IF x < 0 THEN -x ELSE x

RECURSIVE GCD(_, _)
GCD(a, b) == IF b = 0 THEN a ELSE GCD(b, a % b)

Rat(n, d) ==
    LET s == IF d < 0 THEN -1 ELSE 1
        g == GCD(Abs(n), Abs(d))
    IN  <<(s * n) \div g, (s * d) \div g>>

Int2Rat(n) == <<n, 1>>
Zero == <<0, 1>>
One == <<1, 1>>

RAdd(a, b) == Rat(a[1] * b[2] + b[1] * a[2], a[2] * b[2])
RNeg(a) == <<-a[1], a[2]>>
RSub(a, b) == RAdd(a, RNeg(b))
RMul(a, b) == Rat(a[1] * b[1], a[2] * b[2])
RDiv(a, b) == Rat(a[1] * b[2], a[2] * b[1])
RLt(a, b) == a[1] * b[2] < b[1] * a[2]
RLe(a, b) == a[1] * b[2] <= b[1] * a[2]
RIsZero(a) == a[1] = 0

\* round(x, 2) and the format {x:.2f}: the nearest multiple of 1/100, an
\* exact tie going to the even one.
Redondear2(x) ==
    LET n == 100 * x[1]
        f == n \div x[2]
        resto == n - f * x[2]
    IN  IF 2 * resto < x[2] THEN Rat(f, 100)
        ELSE IF 2 * resto > x[2] THEN Rat(f + 1, 100)
        ELSE IF f % 2 = 0 THEN Rat(f, 100)
        ELSE Rat(f + 1, 100)

(* ----------------------------- Python values --------------------------- *)
\* A value a caller can pass: a number, None, or a non-numeric string.
Num(r) == [t |-> "num", r |-> r]
PyNone == [t |-> "none", r |-> Zero]
PyStr == [t |-> "str", r |-> Zero]

\* Floats that are not finite numbers: float() accepts them as they are.
PyNaN == [t |-> "nan", r |-> Zero]
PyInf == [t |-> "inf", r |-> One]
PyNegInf == [t |-> "-inf", r |-> RNeg(One)]
NoFinito(valor) == valor.t \in {"nan", "inf", "-inf"}

\* float(valor): TypeError for None, ValueError for a non-numeric string.
float(valor) ==
    CASE valor.t = "num" -> [st |-> "ok", exc |-> "", v |-> valor.r]
      [] valor.t = "none" -> [st |-> "exc", exc |-> "TypeError", v |-> Zero]
      [] OTHER -> [st |-> "exc", exc |-> "ValueError", v |-> Zero]

\* Python's max(0, x).
max0(x) == IF RLt(Zero, x) THEN x ELSE Zero

(* ------------------- outcome of a call: return or raise ---------------- *)
\* v1, v2: the returned numbers (equilibrio: v1 = P*, v2 = Q*; the
\* evaluators: v1); det: the parametro / message of the exception;
\* solved: whether sympy.solve was invoked during the call.
Return(v1, v2, solved) ==
    [st |-> "ok", exc |-> "", det |-> "", v1 |-> v1, v2 |-> v2, solved |-> solved]
Raise(exc, det, solved) ==
    [st |-> "exc", exc |-> exc, det |-> det, v1 |-> Zero, v2 |-> Zero, solved |-> solved]

\* A returned text f"... {tipo} (e = {e:.2f}): ...": det is the label, v1 the
\* number as the text shows it.
Texto(tipo, e) ==
    [st |-> "ok", exc |-> "", det |-> tipo, v1 |-> Redondear2(e), v2 |-> Zero,
     solved |-> TRUE]

(* ------------------------------ validators ----------------------------- *)
\* A variant of validarPositivo that refuses negative values only.
validarPositivo_estricto(valor, nombre) ==
    LET f == float(valor)
    IN  IF f.st = "exc" THEN Raise("ErrorValidacion", nombre, FALSE)
        ELSE IF RLt(f.v, Zero) THEN Raise("ErrorValidacion", nombre, FALSE)
        ELSE Return(f.v, Zero, FALSE)

validarPositivo(valor, nombre) ==
    LET f == float(valor)
    IN  IF f.st = "exc" THEN Raise("ErrorValidacion", nombre, FALSE)
        ELSE IF RLe(f.v, Zero) THEN Raise("ErrorValidacion", nombre, FALSE)
        ELSE Return(f.v, Zero, FALSE)

validarNoNegativo(valor, nombre) ==
    LET f == float(valor)
    IN  IF f.st = "exc" THEN Raise("ErrorValidacion", nombre, FALSE)
        ELSE IF RLt(f.v, Zero) THEN Raise("ErrorValidacion", nombre, FALSE)
        ELSE Return(f.v, Zero, FALSE)

\* A value returned after warnings.warn(..., UserWarning).
ReturnConAviso(v) ==
    [st |-> "ok", exc |-> "", det |-> "UserWarning", v1 |-> v, v2 |-> Zero,
     solved |-> FALSE]

\* A variant of validarElasticidad that refuses a sign anomaly.
validarElasticidad_fatal(valor, nombre, tipo) ==
    IF NoFinito(valor) THEN Raise("ErrorValidacion", nombre, FALSE)
    ELSE LET f == float(valor)
         IN  IF f.st = "exc" THEN Raise("ErrorValidacion", nombre, FALSE)
             ELSE IF tipo = "demanda" /\ RLt(Zero, f.v)
                  THEN Raise("ErrorValidacion", nombre, FALSE)
             ELSE IF tipo = "oferta" /\ RLt(f.v, Zero)
                  THEN Raise("ErrorValidacion", nombre, FALSE)
             ELSE Return(f.v, Zero, FALSE)

\* float() succeeds on nan and on the infinities, which the range test of
\* line 155 then refuses; every other value goes through float().
validarElasticidad(valor, nombre, tipo) ==
    IF NoFinito(valor) THEN Raise("ErrorValidacion", nombre, FALSE)
    ELSE LET f == float(valor)
         IN  IF f.st = "exc" THEN Raise("ErrorValidacion", nombre, FALSE)
             ELSE IF tipo = "demanda" /\ RLt(Zero, f.v) THEN ReturnConAviso(f.v)
             ELSE IF tipo = "oferta" /\ RLt(f.v, Zero) THEN ReturnConAviso(f.v)
             ELSE Return(f.v, Zero, FALSE)

(* ------------------------- symbolic expressions ------------------------ *)
\* A SymPy expression linear in Q and P: q*Q + p*P + k; esNone marks the
\* Python None that translatex returns when parsing failed.
Expr(q, p, k) == [esNone |-> FALSE, q |-> q, p |-> p, k |-> k]
ExprNone == [esNone |-> TRUE, q |-> Zero, p |-> Zero, k |-> Zero]
Const(k) == Expr(Zero, Zero, k)

EsNumero(e) == RIsZero(e.q) /\ RIsZero(e.p)

\* expr.subs(var, valor)
subs(e, var, valor) ==
    IF var = "P" THEN Expr(e.q, Zero, RAdd(e.k, RMul(e.p, valor)))
    ELSE Expr(Zero, e.p, RAdd(e.k, RMul(e.q, valor)))

\* diff(expr, var)
diff(e, var) == IF var = "P" THEN Const(e.p) ELSE Const(e.q)

\* float(expr): TypeError while a free symbol remains.
floatExpr(e) ==
    IF EsNumero(e) THEN [st |-> "ok", exc |-> "", v |-> e.k]
    ELSE [st |-> "exc", exc |-> "TypeError", v |-> Zero]

\* solve(expr, var): the list of roots of expr = 0 for var; raises for None.
solve(e, var) ==
    IF e.esNone THEN [st |-> "exc", sols |-> <<>>]
    ELSE IF var = "Q"
         THEN IF RIsZero(e.q) THEN [st |-> "ok", sols |-> <<>>]
              ELSE [st |-> "ok",
                    sols |-> <<Expr(Zero, RNeg(RDiv(e.p, e.q)), RNeg(RDiv(e.k, e.q)))>>]
         ELSE IF RIsZero(e.p) THEN [st |-> "ok", sols |-> <<>>]
              ELSE [st |-> "ok",
                    sols |-> <<Expr(RNeg(RDiv(e.q, e.p)), Zero, RNeg(RDiv(e.k, e.p)))>>]

(* ----------------------------- equation text --------------------------- *)
\* An equation text is the sequence of its sides, i.e. what str.split("=")
\* yields; a side is either text the LaTeX grammar rejects (malo) or the
\* text of q*Q + p*P + k with integer coefficients.
Lado(q, p, k) == [malo |-> FALSE, q |-> q, p |-> p, k |-> k]
LadoMalo == [malo |-> TRUE, q |-> 0, p |-> 0, k |-> 0]
LadoQ == Lado(1, 0, 0)
LadoP == Lado(0, 1, 0)

\* latex2sympy of one parseable side.
latex2sympy(l) == Expr(Int2Rat(l.q), Int2Rat(l.p), Int2Rat(l.k))

\* A variant of translatex that builds left + (right).
translatex_suma(strLatex) ==
    IF Len(strLatex) > 1
    THEN LET parts == strLatex
         IN  IF parts[1].malo \/ parts[2].malo THEN ExprNone
             ELSE LET l == latex2sympy(parts[1])
                      r == latex2sympy(parts[2])
                  IN  Expr(RAdd(l.q, r.q), RAdd(l.p, r.p), RAdd(l.k, r.k))
    ELSE IF strLatex[1].malo THEN ExprNone
         ELSE latex2sympy(strLatex[1])

\* A variant of translatex whose except branch returns the number 0.
translatex_cero(strLatex) ==
    IF Len(strLatex) > 1
    THEN LET parts == strLatex
         IN  IF parts[1].malo \/ parts[2].malo THEN Const(Zero)
             ELSE LET l == latex2sympy(parts[1])
                      r == latex2sympy(parts[2])
                  IN  Expr(RSub(l.q, r.q), RSub(l.p, r.p), RSub(l.k, r.k))
    ELSE IF strLatex[1].malo THEN Const(Zero)
         ELSE latex2sympy(strLatex[1])

translatex(strLatex) ==
    IF Len(strLatex) > 1
    THEN LET parts == strLatex
         IN  IF parts[1].malo \/ parts[2].malo THEN ExprNone
             ELSE LET l == latex2sympy(parts[1])
                      r == latex2sympy(parts[2])
                  IN  Expr(RSub(l.q, r.q), RSub(l.p, r.p), RSub(l.k, r.k))
    ELSE IF strLatex[1].malo THEN ExprNone
         ELSE latex2sympy(strLatex[1])

\* What translatex prints (line 16): one diagnostic when latex2sympy raised,
\* which is when it returns None.
Diagnostico(strLatex) ==
    IF translatex(strLatex).esNone THEN <<"Error en el Parser">> ELSE <<>>

\* validarEcuacion: the texts of this model are non-blank strings, so of its
\* three tests only the count of '=' signs can fail.  True is returned as
\* the label "True".
validarEcuacion(ecuacion) ==
    IF Len(ecuacion) - 1 > 1 THEN Raise("ErrorValidacion", "ecuacion", FALSE)
    ELSE [st |-> "ok", exc |-> "", det |-> "True", v1 |-> Zero, v2 |-> Zero,
          solved |-> FALSE]

(* ------------------------------- curves -------------------------------- *)
Demanda(ecuacion) ==
    [expresion |-> translatex(ecuacion), ecuacionOriginal |-> ecuacion]

Oferta(ecuacion) ==
    [expresion |-> translatex(ecuacion), ecuacionOriginal |-> ecuacion]

(* ------------------------ Demanda: the evaluators ---------------------- *)
\* A variant of Demanda.cantidad that returns the evaluated root as it is.
Demanda_cantidad_sinMax(self, precio) ==
    LET v == validarPositivo(precio, "precio")
    IN  IF v.st = "exc" THEN v
        ELSE LET solucion == solve(self.expresion, "Q")
             IN  IF solucion.st = "exc" THEN Raise("AttributeError", "", TRUE)
                 ELSE IF solucion.sols = <<>>
                      THEN Raise("ErrorValidacion", "demanda", TRUE)
                 ELSE LET cantidadExpresion == solucion.sols[1]
                          cantidad_valor == floatExpr(subs(cantidadExpresion, "P", v.v1))
                      IN  IF cantidad_valor.st = "exc"
                          THEN Raise(cantidad_valor.exc, "", TRUE)
                          ELSE Return(cantidad_valor.v, Zero, TRUE)

Demanda_cantidad(self, precio) ==
    LET v == validarPositivo(precio, "precio")
    IN  IF v.st = "exc" THEN v
        ELSE LET solucion == solve(self.expresion, "Q")
             IN  IF solucion.st = "exc" THEN Raise("AttributeError", "", TRUE)
                 ELSE IF solucion.sols = <<>>
                      THEN Raise("ErrorValidacion", "demanda", TRUE)
                 ELSE LET cantidadExpresion == solucion.sols[1]
                          cantidad_valor == floatExpr(subs(cantidadExpresion, "P", v.v1))
                      IN  IF cantidad_valor.st = "exc"
                          THEN Raise(cantidad_valor.exc, "", TRUE)
                          ELSE Return(max0(cantidad_valor.v), Zero, TRUE)

\* A variant of Demanda.precio that isolates Q, as cantidad does, and
\* substitutes the argument for P.
Demanda_precio_despejaQ(self, cantidad) ==
    LET v == validarNoNegativo(cantidad, "cantidad")
    IN  IF v.st = "exc" THEN v
        ELSE LET solucion == solve(self.expresion, "Q")
             IN  IF solucion.st = "exc" THEN Raise("AttributeError", "", TRUE)
                 ELSE IF solucion.sols = <<>>
                      THEN Raise("ErrorValidacion", "demanda", TRUE)
                 ELSE LET precio_expr == solucion.sols[1]
                          precio_valor == floatExpr(subs(precio_expr, "P", v.v1))
                      IN  IF precio_valor.st = "exc"
                          THEN Raise(precio_valor.exc, "", TRUE)
                          ELSE Return(max0(precio_valor.v), Zero, TRUE)

Demanda_precio(self, cantidad) ==
    LET v == validarNoNegativo(cantidad, "cantidad")
    IN  IF v.st = "exc" THEN v
        ELSE LET solucion == solve(self.expresion, "P")
             IN  IF solucion.st = "exc" THEN Raise("AttributeError", "", TRUE)
                 ELSE IF solucion.sols = <<>>
                      THEN Raise("ErrorValidacion", "demanda", TRUE)
                 ELSE LET precio_expr == solucion.sols[1]
                          precio_valor == floatExpr(subs(precio_expr, "Q", v.v1))
                      IN  IF precio_valor.st = "exc"
                          THEN Raise(precio_valor.exc, "", TRUE)
                          ELSE Return(max0(precio_valor.v), Zero, TRUE)

\* A variant of Demanda.elasticidadPrecio that differentiates with respect
\* to Q.
Demanda_elasticidadPrecio_derivaQ(self, precio, cantidad) ==
    LET vp == validarPositivo(precio, "precio")
        vc == validarPositivo(cantidad, "cantidad")
    IN  IF vp.st = "exc" THEN vp
        ELSE IF vc.st = "exc" THEN vc
        ELSE LET solucionCantidad == solve(self.expresion, "Q")
             IN  IF solucionCantidad.st = "exc" THEN Raise("AttributeError", "", TRUE)
                 ELSE IF solucionCantidad.sols = <<>>
                      THEN Raise("ErrorValidacion", "demanda", TRUE)
                 ELSE LET cantidadExpresion == solucionCantidad.sols[1]
                          derivada == diff(cantidadExpresion, "Q")
                          derivada_valor == floatExpr(subs(derivada, "P", vp.v1))
                      IN  IF derivada_valor.st = "exc"
                          THEN Raise(derivada_valor.exc, "", TRUE)
                          ELSE Return(RMul(derivada_valor.v, RDiv(vp.v1, vc.v1)), Zero, TRUE)

Demanda_elasticidadPrecio(self, precio, cantidad) ==
    LET vp == validarPositivo(precio, "precio")
        vc == validarPositivo(cantidad, "cantidad")
    IN  IF vp.st = "exc" THEN vp
        ELSE IF vc.st = "exc" THEN vc
        ELSE LET solucionCantidad == solve(self.expresion, "Q")
             IN  IF solucionCantidad.st = "exc" THEN Raise("AttributeError", "", TRUE)
                 ELSE IF solucionCantidad.sols = <<>>
                      THEN Raise("ErrorValidacion", "demanda", TRUE)
                 ELSE LET cantidadExpresion == solucionCantidad.sols[1]
                          derivada == diff(cantidadExpresion, "P")
                          derivada_valor == floatExpr(subs(derivada, "P", vp.v1))
                      IN  IF derivada_valor.st = "exc"
                          THEN Raise(derivada_valor.exc, "", TRUE)
                          ELSE Return(RMul(derivada_valor.v, RDiv(vp.v1, vc.v1)), Zero, TRUE)

\* abs(e)
RAbs(a) == IF a[1] < 0 THEN RNeg(a) ELSE a

Demanda_interpretarElasticidad(self, precio, cantidad) ==
    LET e == Demanda_elasticidadPrecio(self, precio, cantidad)
    IN  IF e.st = "exc" THEN e
        ELSE LET abs_e == RAbs(e.v1)
             IN  IF RLt(One, abs_e) THEN Texto("ELÁSTICA", e.v1)
                 ELSE IF RLt(abs_e, One) THEN Texto("INELÁSTICA", e.v1)
                 ELSE Texto("UNITARIA", e.v1)

(* ------------------------ Oferta: the evaluators ----------------------- *)
\* A variant of Oferta.cantidad that isolates P, as precio does, and
\* substitutes the argument for Q.
Oferta_cantidad_despejaP(self, precio) ==
    LET v == validarPositivo(precio, "precio")
    IN  IF v.st = "exc" THEN v
        ELSE LET solucion == solve(self.expresion, "P")
             IN  IF solucion.st = "exc" THEN Raise("AttributeError", "", TRUE)
                 ELSE IF solucion.sols = <<>>
                      THEN Raise("ErrorValidacion", "oferta", TRUE)
                 ELSE LET cantidadExpresion == solucion.sols[1]
                          cantidad_valor == floatExpr(subs(cantidadExpresion, "Q", v.v1))
                      IN  IF cantidad_valor.st = "exc"
                          THEN Raise(cantidad_valor.exc, "", TRUE)
                          ELSE Return(max0(cantidad_valor.v), Zero, TRUE)

Oferta_cantidad(self, precio) ==
    LET v == validarPositivo(precio, "precio")
    IN  IF v.st = "exc" THEN v
        ELSE LET solucion == solve(self.expresion, "Q")
             IN  IF solucion.st = "exc" THEN Raise("AttributeError", "", TRUE)
                 ELSE IF solucion.sols = <<>>
                      THEN Raise("ErrorValidacion", "oferta", TRUE)
                 ELSE LET cantidadExpresion == solucion.sols[1]
                          cantidad_valor == floatExpr(subs(cantidadExpresion, "P", v.v1))
                      IN  IF cantidad_valor.st = "exc"
                          THEN Raise(cantidad_valor.exc, "", TRUE)
                          ELSE Return(max0(cantidad_valor.v), Zero, TRUE)

Oferta_precio(self, cantidad) ==
    LET v == validarNoNegativo(cantidad, "cantidad")
    IN  IF v.st = "exc" THEN v
        ELSE LET solucion == solve(self.expresion, "P")
             IN  IF solucion.st = "exc" THEN Raise("AttributeError", "", TRUE)
                 ELSE IF solucion.sols = <<>>
                      THEN Raise("ErrorValidacion", "oferta", TRUE)
                 ELSE LET precio_expr == solucion.sols[1]
                          precio_valor == floatExpr(subs(precio_expr, "Q", v.v1))
                      IN  IF precio_valor.st = "exc"
                          THEN Raise(precio_valor.exc, "", TRUE)
                          ELSE Return(max0(precio_valor.v), Zero, TRUE)

\* A variant of Oferta.elasticidadPrecio that multiplies the derivative by
\* cantidad / precio.
Oferta_elasticidadPrecio_invertida(self, precio, cantidad) ==
    LET vp == validarPositivo(precio, "precio")
        vc == validarPositivo(cantidad, "cantidad")
    IN  IF vp.st = "exc" THEN vp
        ELSE IF vc.st = "exc" THEN vc
        ELSE LET solucionCantidad == solve(self.expresion, "Q")
             IN  IF solucionCantidad.st = "exc" THEN Raise("AttributeError", "", TRUE)
                 ELSE IF solucionCantidad.sols = <<>>
                      THEN Raise("ErrorValidacion", "oferta", TRUE)
                 ELSE LET cantidadExpresion == solucionCantidad.sols[1]
                          derivada == diff(cantidadExpresion, "P")
                          derivada_valor == floatExpr(subs(derivada, "P", vp.v1))
                      IN  IF derivada_valor.st = "exc"
                          THEN Raise(derivada_valor.exc, "", TRUE)
                          ELSE Return(RMul(derivada_valor.v, RDiv(vc.v1, vp.v1)), Zero, TRUE)

Oferta_elasticidadPrecio(self, precio, cantidad) ==
    LET vp == validarPositivo(precio, "precio")
        vc == validarPositivo(cantidad, "cantidad")
    IN  IF vp.st = "exc" THEN vp
        ELSE IF vc.st = "exc" THEN vc
        ELSE LET solucionCantidad == solve(self.expresion, "Q")
             IN  IF solucionCantidad.st = "exc" THEN Raise("AttributeError", "", TRUE)
                 ELSE IF solucionCantidad.sols = <<>>
                      THEN Raise("ErrorValidacion", "oferta", TRUE)
                 ELSE LET cantidadExpresion == solucionCantidad.sols[1]
                          derivada == diff(cantidadExpresion, "P")
                          derivada_valor == floatExpr(subs(derivada, "P", vp.v1))
                      IN  IF derivada_valor.st = "exc"
                          THEN Raise(derivada_valor.exc, "", TRUE)
                          ELSE Return(RMul(derivada_valor.v, RDiv(vp.v1, vc.v1)), Zero, TRUE)

\* A variant of Oferta.interpretarElasticidad that compares abs(n) with 1.
Oferta_interpretarElasticidad_abs(self, precio, cantidad) ==
    LET n == Oferta_elasticidadPrecio(self, precio, cantidad)
    IN  IF n.st = "exc" THEN n
        ELSE LET abs_n == RAbs(n.v1)
             IN  IF RLt(One, abs_n) THEN Texto("ELÁSTICA", n.v1)
                 ELSE IF RLt(abs_n, One) THEN Texto("INELÁSTICA", n.v1)
                 ELSE Texto("UNITARIA", n.v1)

Oferta_interpretarElasticidad(self, precio, cantidad) ==
    LET n == Oferta_elasticidadPrecio(self, precio, cantidad)
    IN  IF n.st = "exc" THEN n
        ELSE IF RLt(One, n.v1) THEN Texto("ELÁSTICA", n.v1)
        ELSE IF RLt(n.v1, One) THEN Texto("INELÁSTICA", n.v1)
        ELSE Texto("UNITARIA", n.v1)

(* ------------------------------ equilibrio ----------------------------- *)
\* solve([e1, e2], [Q, P], dict=True) for expressions linear in Q and P:
\* a list of solution mappings.  A determined system has one mapping with
\* both symbols; an inconsistent one has none; a dependent one has one
\* mapping that gives only the pivot symbol (Q when it occurs, else P),
\* possibly in terms of the other symbol.
EsCero(e) == RIsZero(e.q) /\ RIsZero(e.p) /\ RIsZero(e.k)

solveSystem(e1, e2) ==
    IF e1.esNone \/ e2.esNone THEN [st |-> "exc", sols |-> <<>>]
    ELSE
    LET det == RSub(RMul(e1.q, e2.p), RMul(e2.q, e1.p))
    IN  IF ~RIsZero(det)
        THEN LET qv == RDiv(RSub(RMul(e2.k, e1.p), RMul(e1.k, e2.p)), det)
                 pv == RDiv(RSub(RMul(e2.q, e1.k), RMul(e1.q, e2.k)), det)
             IN  [st |-> "ok",
                  sols |-> << [s \in {"Q", "P"} |->
                                 IF s = "Q" THEN Const(qv) ELSE Const(pv)] >>]
        ELSE LET contradiccion(e) == EsNumero(e) /\ ~RIsZero(e.k)
                 proporcionales ==
                     /\ RMul(e1.q, e2.k) = RMul(e2.q, e1.k)
                     /\ RMul(e1.p, e2.k) = RMul(e2.p, e1.k)
                 r == IF EsCero(e1) THEN e2 ELSE e1
             IN  IF contradiccion(e1) \/ contradiccion(e2) THEN [st |-> "ok", sols |-> <<>>]
                 ELSE IF EsCero(r) THEN [st |-> "ok", sols |-> <<>>]
                 ELSE IF ~EsCero(e1) /\ ~EsCero(e2) /\ ~proporcionales
                      THEN [st |-> "ok", sols |-> <<>>]
                 ELSE IF ~RIsZero(r.q)
                      THEN [st |-> "ok",
                            sols |-> << [s \in {"Q"} |->
                               Expr(Zero, RNeg(RDiv(r.p, r.q)), RNeg(RDiv(r.k, r.q)))] >>]
                      ELSE [st |-> "ok",
                            sols |-> << [s \in {"P"} |-> Const(RNeg(RDiv(r.k, r.p)))] >>]

\* A variant of extraerSolucion that reads the price from solucion[Q] and the
\* quantity from solucion[P].
extraerSolucion_intercambio(solucion) ==
    IF "P" \notin DOMAIN solucion THEN Raise("KeyError", "P", TRUE)
    ELSE LET cantidad_equilibrio == floatExpr(solucion["P"])
         IN  IF cantidad_equilibrio.st = "exc" THEN Raise("TypeError", "P", TRUE)
             ELSE IF "Q" \notin DOMAIN solucion THEN Raise("KeyError", "Q", TRUE)
             ELSE LET precio_equilibrio == floatExpr(solucion["Q"])
                  IN  IF precio_equilibrio.st = "exc" THEN Raise("TypeError", "Q", TRUE)
                      ELSE IF RLt(cantidad_equilibrio.v, Zero) \/ RLt(precio_equilibrio.v, Zero)
                           THEN Raise("ErrorEquilibrio", "valores negativos", TRUE)
                           ELSE Return(precio_equilibrio.v, cantidad_equilibrio.v, TRUE)

\* A variant of extraerSolucion that checks the sign of the quantity only.
extraerSolucion_soloCantidad(solucion) ==
    IF "Q" \notin DOMAIN solucion THEN Raise("KeyError", "Q", TRUE)
    ELSE LET cantidad_equilibrio == floatExpr(solucion["Q"])
         IN  IF cantidad_equilibrio.st = "exc" THEN Raise("TypeError", "Q", TRUE)
             ELSE IF "P" \notin DOMAIN solucion THEN Raise("KeyError", "P", TRUE)
             ELSE LET precio_equilibrio == floatExpr(solucion["P"])
                  IN  IF precio_equilibrio.st = "exc" THEN Raise("TypeError", "P", TRUE)
                      ELSE IF RLt(cantidad_equilibrio.v, Zero)
                           THEN Raise("ErrorEquilibrio", "valores negativos", TRUE)
                           ELSE Return(precio_equilibrio.v, cantidad_equilibrio.v, TRUE)

\* Lines 508-524: take the single solution, convert it and check its signs.
\* solucion[Q] / solucion[P] raise KeyError for a symbol the mapping lacks,
\* float() raises TypeError for a value that still contains a symbol.
extraerSolucion(solucion) ==
    IF "Q" \notin DOMAIN solucion THEN Raise("KeyError", "Q", TRUE)
    ELSE LET cantidad_equilibrio == floatExpr(solucion["Q"])
         IN  IF cantidad_equilibrio.st = "exc" THEN Raise("TypeError", "Q", TRUE)
             ELSE IF "P" \notin DOMAIN solucion THEN Raise("KeyError", "P", TRUE)
             ELSE LET precio_equilibrio == floatExpr(solucion["P"])
                  IN  IF precio_equilibrio.st = "exc" THEN Raise("TypeError", "P", TRUE)
                      ELSE IF RLt(cantidad_equilibrio.v, Zero) \/ RLt(precio_equilibrio.v, Zero)
                           THEN Raise("ErrorEquilibrio", "valores negativos", TRUE)
                           ELSE Return(precio_equilibrio.v, cantidad_equilibrio.v, TRUE)

\* A variant of equilibrio without the empty-list test: soluciones[0] then
\* raises IndexError.
equilibrio_sinVacio(oferta_, demanda_) ==
    LET soluciones == solveSystem(oferta_.expresion, demanda_.expresion)
    IN  IF soluciones.st = "exc"
        THEN Raise("ErrorEquilibrio", "no se pudo resolver", TRUE)
        ELSE IF Len(soluciones.sols) > 1
             THEN Raise("ErrorEquilibrio", "existen varios equilibrios", TRUE)
        ELSE IF soluciones.sols = <<>> THEN Raise("IndexError", "", TRUE)
        ELSE extraerSolucion(soluciones.sols[1])

equilibrio(oferta_, demanda_) ==
    LET soluciones == solveSystem(oferta_.expresion, demanda_.expresion)
    IN  IF soluciones.st = "exc"
        THEN Raise("ErrorEquilibrio", "no se pudo resolver", TRUE)
        ELSE IF soluciones.sols = <<>>
             THEN Raise("ErrorEquilibrio", "no existe equilibrio", TRUE)
        ELSE IF Len(soluciones.sols) > 1
             THEN Raise("ErrorEquilibrio", "existen varios equilibrios", TRUE)
        ELSE extraerSolucion(soluciones.sols[1])

(* ------------------------------ excedentes ----------------------------- *)
\* integrate(expr, (Q, 0, cantidad)) for expr = q*Q + k.
integrate(e, cantidad) ==
    RAdd(RMul(e.q, RDiv(RMul(cantidad, cantidad), <<2, 1>>)), RMul(e.k, cantidad))

\* The mapping returned by excedentes: v1 is 'P' and v2 is 'Q'.
ReturnExcedentes(ec, ep, es, p, q) ==
    [st |-> "ok", exc |-> "", det |-> "", v1 |-> p, v2 |-> q, solved |-> TRUE,
     EC |-> ec, EP |-> ep, ES |-> es]

\* A variant of the surplus computation that takes the producer surplus as
\* the integral minus price * quantity.
calcularExcedentes_signoEP(oferta_, demanda_, precio, cantidad) ==
    IF solve(demanda_.expresion, "P").st = "exc"
        \/ solve(oferta_.expresion, "P").st = "exc"
    THEN Raise("ErrorValidacion", "excedentes", TRUE)
    ELSE LET solucion_demanda == solve(demanda_.expresion, "P").sols
             solucion_oferta == solve(oferta_.expresion, "P").sols
         IN  IF solucion_demanda = <<>> THEN Raise("ErrorValidacion", "excedentes", TRUE)
             ELSE IF solucion_oferta = <<>> THEN Raise("ErrorValidacion", "excedentes", TRUE)
             ELSE IF precio.t # "num" \/ cantidad.t # "num"
                  THEN Raise("ErrorValidacion", "excedentes", TRUE)
             ELSE LET precio_demanda == solucion_demanda[1]
                      precio_oferta == solucion_oferta[1]
                      gasto == RMul(precio.r, cantidad.r)
                      integral_demanda == integrate(precio_demanda, cantidad.r)
                      excedente_consumidor == RSub(integral_demanda, gasto)
                      integral_oferta == integrate(precio_oferta, cantidad.r)
                      excedente_productor == RSub(integral_oferta, gasto)
                      excedente_social == RAdd(excedente_consumidor, excedente_productor)
                  IN  ReturnExcedentes(Redondear2(excedente_consumidor),
                                       Redondear2(excedente_productor),
                                       Redondear2(excedente_social),
                                       precio.r, cantidad.r)

\* A variant of the surplus computation that lets the ErrorValidacion of a
\* curve without P escape as it was raised.
calcularExcedentes_sinEnvolver(oferta_, demanda_, precio, cantidad) ==
    IF solve(demanda_.expresion, "P").st = "exc"
        \/ solve(oferta_.expresion, "P").st = "exc"
    THEN Raise("ErrorValidacion", "excedentes", TRUE)
    ELSE LET solucion_demanda == solve(demanda_.expresion, "P").sols
             solucion_oferta == solve(oferta_.expresion, "P").sols
         IN  IF solucion_demanda = <<>> THEN Raise("ErrorValidacion", "demanda", TRUE)
             ELSE IF solucion_oferta = <<>> THEN Raise("ErrorValidacion", "oferta", TRUE)
             ELSE IF precio.t # "num" \/ cantidad.t # "num"
                  THEN Raise("ErrorValidacion", "excedentes", TRUE)
             ELSE LET precio_demanda == solucion_demanda[1]
                      precio_oferta == solucion_oferta[1]
                      gasto == RMul(precio.r, cantidad.r)
                      integral_demanda == integrate(precio_demanda, cantidad.r)
                      excedente_consumidor == RSub(integral_demanda, gasto)
                      integral_oferta == integrate(precio_oferta, cantidad.r)
                      excedente_productor == RSub(gasto, integral_oferta)
                      excedente_social == RAdd(excedente_consumidor, excedente_productor)
                  IN  ReturnExcedentes(Redondear2(excedente_consumidor),
                                       Redondear2(excedente_productor),
                                       Redondear2(excedente_social),
                                       precio.r, cantidad.r)

\* Lines 566-607, the try block: every exception raised in it, the
\* ErrorValidacion of a curve without P, the failure of solve on None and the
\* TypeError of an argument that is not a number included, is raised again
\* as ErrorValidacion("excedentes", ...).
calcularExcedentes(oferta_, demanda_, precio, cantidad) ==
    IF solve(demanda_.expresion, "P").st = "exc"
        \/ solve(oferta_.expresion, "P").st = "exc"
    THEN Raise("ErrorValidacion", "excedentes", TRUE)
    ELSE LET solucion_demanda == solve(demanda_.expresion, "P").sols
             solucion_oferta == solve(oferta_.expresion, "P").sols
         IN  IF solucion_demanda = <<>> THEN Raise("ErrorValidacion", "excedentes", TRUE)
             ELSE IF solucion_oferta = <<>> THEN Raise("ErrorValidacion", "excedentes", TRUE)
             ELSE IF precio.t # "num" \/ cantidad.t # "num"
                  THEN Raise("ErrorValidacion", "excedentes", TRUE)
             ELSE LET precio_demanda == solucion_demanda[1]
                      precio_oferta == solucion_oferta[1]
                      gasto == RMul(precio.r, cantidad.r)
                      integral_demanda == integrate(precio_demanda, cantidad.r)
                      excedente_consumidor == RSub(integral_demanda, gasto)
                      integral_oferta == integrate(precio_oferta, cantidad.r)
                      excedente_productor == RSub(gasto, integral_oferta)
                      excedente_social == RAdd(excedente_consumidor, excedente_productor)
                  IN  ReturnExcedentes(Redondear2(excedente_consumidor),
                                       Redondear2(excedente_productor),
                                       Redondear2(excedente_social),
                                       precio.r, cantidad.r)

\* Lines 560-564 are outside the try block: what equilibrio raises leaves
\* excedentes as it is, and its P* and Q* replace both arguments.
excedentes(oferta_, demanda_, precio, cantidad) ==
    IF precio.t = "none" \/ cantidad.t = "none"
    THEN LET eq == equilibrio(oferta_, demanda_)
         IN  IF eq.st = "exc" THEN eq
             ELSE calcularExcedentes(oferta_, demanda_, Num(eq.v1), Num(eq.v2))
    ELSE calcularExcedentes(oferta_, demanda_, precio, cantidad)

(* ================================ IS-LM ================================= *)
\* Expressions of the macro model are linear in the symbols below, "1"
\* standing for the constant term and "MP" for the quotient M/P; cuad marks
\* an expression that also has a term in Y^2.
SimbolosISLM == {"Y", "i", "r", "rho", "rate", "C", "I", "L", "G", "T", "MP", "1"}

Coefs(pares) ==
    [s \in SimbolosISLM |->
        IF \E par \in pares : par[1] = s
        THEN (CHOOSE par \in pares : par[1] = s)[2]
        ELSE Zero]

ExprM(c, cuad) == [esNone |-> FALSE, c |-> c, cuad |-> cuad]
ExprMNone == [esNone |-> TRUE, c |-> Coefs({}), cuad |-> FALSE]
Simbolo(s) == ExprM(Coefs({<<s, One>>}), FALSE)

MSub(a, b) == ExprM([s \in SimbolosISLM |-> RSub(a.c[s], b.c[s])], a.cuad \/ b.cuad)
MEscala(a, k) == ExprM([s \in SimbolosISLM |-> RMul(a.c[s], k)], a.cuad)

\* expr.free_symbols
free_symbols(e) == { s \in SimbolosISLM \ {"1"} : ~RIsZero(e.c[s]) }

\* expr.subs(viejo, nuevo) for two symbols.
subsSimbolo(e, viejo, nuevo) ==
    IF viejo = nuevo THEN e
    ELSE ExprM([s \in SimbolosISLM |->
                  IF s = viejo THEN Zero
                  ELSE IF s = nuevo THEN RAdd(e.c[nuevo], e.c[viejo])
                  ELSE e.c[s]], e.cuad)

\* A side of a text of the macro model, and translatex on such a text.
LadoM(c, cuad) == [malo |-> FALSE, c |-> c, cuad |-> cuad]
LadoMMalo == [malo |-> TRUE, c |-> Coefs({}), cuad |-> FALSE]

translatexISLM(strLatex) ==
    IF Len(strLatex) > 1
    THEN LET parts == strLatex
         IN  IF parts[1].malo \/ parts[2].malo THEN ExprMNone
             ELSE MSub(ExprM(parts[1].c, parts[1].cuad), ExprM(parts[2].c, parts[2].cuad))
    ELSE IF strLatex[1].malo THEN ExprMNone
         ELSE ExprM(strLatex[1].c, strLatex[1].cuad)

\* expr.subs(valores) followed by float(): the parameters G, T, M, P (and Y
\* and the interest rate, when given) get their numbers; TypeError when
\* another symbol is left.
floatM(e, valores) ==
    IF \E s \in free_symbols(e) : s \notin DOMAIN valores
    THEN [st |-> "exc", v |-> Zero]
    ELSE [st |-> "ok",
          v |-> LET RECURSIVE Suma(_)
                    Suma(S) == IF S = {} THEN e.c["1"]
                               ELSE LET s == CHOOSE x \in S : TRUE
                                    IN  RAdd(RMul(e.c[s], valores[s]), Suma(S \ {s}))
                IN  Suma(free_symbols(e))]

\* solve([ecuacionIS, ecuacionLM], (Y, tasa)): a mapping of both symbols for
\* a determined linear system, the empty list for an inconsistent one, a
\* mapping of the pivot symbol alone for a dependent one, and a list of
\* tuples when the system is not linear.
Resto(e, tasa) ==
    ExprM([s \in SimbolosISLM |-> IF s \in {"Y", tasa} THEN Zero ELSE e.c[s]], FALSE)
EsCeroM(e) == \A s \in SimbolosISLM : RIsZero(e.c[s])

solveISLM(eIS, eLM, tasa) ==
    IF eIS.cuad \/ eLM.cuad
    THEN [tipo |-> "lista", claves |-> {}, Y |-> ExprMNone, tasa |-> ExprMNone]
    ELSE
    LET a1 == eIS.c["Y"]
        b1 == eIS.c[tasa]
        a2 == eLM.c["Y"]
        b2 == eLM.c[tasa]
        R1 == Resto(eIS, tasa)
        R2 == Resto(eLM, tasa)
        det == RSub(RMul(a1, b2), RMul(a2, b1))
        vacia == [tipo |-> "vacia", claves |-> {}, Y |-> ExprMNone, tasa |-> ExprMNone]
        parcial(e) ==
            IF ~RIsZero(e.c["Y"])
            THEN [tipo |-> "dict", claves |-> {"Y"}, Y |-> ExprMNone, tasa |-> ExprMNone]
            ELSE [tipo |-> "dict", claves |-> {tasa}, Y |-> ExprMNone, tasa |-> ExprMNone]
    IN  IF ~RIsZero(det)
        THEN [tipo |-> "dict", claves |-> {"Y", tasa},
              Y |-> MEscala(MSub(MEscala(R2, b1), MEscala(R1, b2)), RDiv(One, det)),
              tasa |-> MEscala(MSub(MEscala(R1, a2), MEscala(R2, a1)), RDiv(One, det))]
        ELSE IF EsCeroM(eIS) /\ EsCeroM(eLM) THEN vacia
        ELSE IF EsCeroM(eIS) THEN
                 (IF RIsZero(a2) /\ RIsZero(b2) THEN vacia ELSE parcial(eLM))
        ELSE IF EsCeroM(eLM) THEN
                 (IF RIsZero(a1) /\ RIsZero(b1) THEN vacia ELSE parcial(eIS))
        ELSE IF \E k \in {RDiv(a2, a1) : x \in {1} \cap {IF RIsZero(a1) THEN 0 ELSE 1}}
                       \cup {RDiv(b2, b1) : x \in {1} \cap {IF RIsZero(b1) THEN 0 ELSE 1}} :
                    \A s \in SimbolosISLM : eLM.c[s] = RMul(k, eIS.c[s])
             THEN parcial(eIS)
        ELSE vacia

\* The outcome of a call of the macro model: paso is the step that raised.
ReturnISLM(y, r, k, m, c, inv, eIS, eLM) ==
    [st |-> "ok", exc |-> "", paso |-> "", Y |-> y, r |-> r, k |-> k, m |-> m,
     C |-> c, I |-> inv, ecuacionIS |-> eIS, ecuacionLM |-> eLM]
RaiseISLM(exc, paso, eIS, eLM) ==
    [st |-> "exc", exc |-> exc, paso |-> paso, Y |-> Zero, r |-> Zero, k |-> Zero,
     m |-> Zero, C |-> Zero, I |-> Zero, ecuacionIS |-> eIS, ecuacionLM |-> eLM]

\* Lines 129-138: the loop looks at the symbols named r, rho or rate, and
\* substitutes the one that is the symbol r, in the three expressions.
renombrar(e, simbolos) ==
    IF "r" \in simbolos THEN subsSimbolo(e, "r", "i") ELSE e

\* ISLM.equilibrio of macroeconomia/islm.py.
ISLM_equilibrio(consumo, inversion, demandaDinero, gastoPublico, impuestos, ofertaMonetaria, nivelPrecios) ==
    LET C_eq == translatexISLM(consumo)
        I_eq == translatexISLM(inversion)
        L_eq == translatexISLM(demandaDinero)
    IN  IF C_eq.esNone \/ I_eq.esNone \/ L_eq.esNone
        THEN RaiseISLM("AttributeError", "renombrar", ExprMNone, ExprMNone)
        ELSE
        LET simbolos == free_symbols(C_eq) \cup free_symbols(I_eq) \cup free_symbols(L_eq)
            C_expr == renombrar(C_eq, simbolos)
            I_expr == renombrar(I_eq, simbolos)
            L_expr == renombrar(L_eq, simbolos)
            ecuacionIS == MSub(MSub(MSub(Simbolo("Y"), C_expr), I_expr), Simbolo("G"))
            ecuacionLM == MSub(L_expr, Simbolo("MP"))
            solucion_simbolica == solveISLM(ecuacionIS, ecuacionLM, "i")
            valores == [s \in {"G", "T", "MP"} |->
                           IF s = "G" THEN gastoPublico
                           ELSE IF s = "T" THEN impuestos
                           ELSE RDiv(ofertaMonetaria, nivelPrecios)]
            Y_equilibrio == floatM(solucion_simbolica.Y, valores)
            i_equilibrio == floatM(solucion_simbolica.tasa, valores)
            conYi == [s \in {"G", "T", "MP", "Y", "i"} |->
                           IF s = "Y" THEN Y_equilibrio.v
                           ELSE IF s = "i" THEN i_equilibrio.v
                           ELSE valores[s]]
            C_equilibrio == floatM(C_expr, conYi)
            I_equilibrio == floatM(I_expr, conYi)
            falla(exc, paso) == RaiseISLM(exc, paso, ecuacionIS, ecuacionLM)
        IN  IF solucion_simbolica.tipo = "vacia" THEN falla("ErrorEquilibrio", "resolver")
            ELSE IF solucion_simbolica.tipo = "lista" THEN falla("TypeError", "extraer")
            ELSE IF solucion_simbolica.claves # {"Y", "i"} THEN falla("KeyError", "extraer")
            ELSE IF "exc" \in {Y_equilibrio.st, i_equilibrio.st,
                               C_equilibrio.st, I_equilibrio.st}
                 THEN falla("TypeError", "sustituir")
            ELSE ReturnISLM(Y_equilibrio.v, i_equilibrio.v,
                            solucion_simbolica.Y.c["G"],
                            RDiv(solucion_simbolica.Y.c["MP"], nivelPrecios),
                            C_equilibrio.v, I_equilibrio.v, ecuacionIS, ecuacionLM)

\* ISLM.equilibrium of macroeconomics/models.py: the rate is the symbol r,
\* nothing is renamed and nothing is caught.
ISLM_equilibrium(consumptionFunction, investmentFunction, liquidityPreferenceFunction, gValue, tValue, mValue, pValue) ==
    LET C == translatexISLM(consumptionFunction)
        I == translatexISLM(investmentFunction)
        L == translatexISLM(liquidityPreferenceFunction)
    IN  IF C.esNone \/ I.esNone \/ L.esNone
        THEN RaiseISLM("TypeError", "ensamblar", ExprMNone, ExprMNone)
        ELSE
        LET goods_market_eq == MSub(MSub(MSub(Simbolo("Y"), C), I), Simbolo("G"))
            money_market_eq == MSub(L, Simbolo("MP"))
            symbolic_solution == solveISLM(goods_market_eq, money_market_eq, "r")
            values == [s \in {"G", "T", "MP"} |->
                           IF s = "G" THEN gValue
                           ELSE IF s = "T" THEN tValue
                           ELSE RDiv(mValue, pValue)]
            y_final == floatM(symbolic_solution.Y, values)
            r_final == floatM(symbolic_solution.tasa, values)
            falla(exc, paso) == RaiseISLM(exc, paso, goods_market_eq, money_market_eq)
        IN  IF symbolic_solution.tipo \in {"vacia", "lista"} THEN falla("TypeError", "extraer")
            ELSE IF symbolic_solution.claves # {"Y", "r"} THEN falla("KeyError", "extraer")
            ELSE IF "exc" \in {y_final.st, r_final.st} THEN falla("TypeError", "sustituir")
            ELSE ReturnISLM(y_final.v, r_final.v,
                            symbolic_solution.Y.c["G"],
                            RDiv(symbolic_solution.Y.c["MP"], pValue),
                            Zero, Zero, goods_market_eq, money_market_eq)

(* ============================ English API ============================== *)
\* EconomicFunction(tex) of microeconomics/models.py, the base of Supply and
\* Demand there: it has expr and no intercept or slope.
EconomicFunction(tex) ==
    [expr |-> translatex(tex), lineal |-> FALSE, intercepto |-> Zero, pendiente |-> Zero]

\* The Supply and Demand that test/test.py constructs and the graphs read:
\* Supply(intercepto=c, pendiente=d) is Q = c + dP (attributes c, d) and
\* Demand(intercepto=a, pendiente=b) is Q = a - bP (attributes a, b).
Supply(intercepto, pendiente) ==
    [expr |-> Expr(One, RNeg(pendiente), RNeg(intercepto)), lineal |-> TRUE,
     intercepto |-> intercepto, pendiente |-> pendiente]
Demand(intercepto, pendiente) ==
    [expr |-> Expr(One, pendiente, RNeg(intercepto)), lineal |-> TRUE,
     intercepto |-> intercepto, pendiente |-> pendiente]

\* Python values returned by the English functions, and the outcome of a call:
\* figura is what the call has drawn, x and y being the coordinates of the
\* equilibrium marker.
PyTuple(items) == [t |-> "tuple", items |-> items]
SinFigura == [dibujada |-> FALSE, x |-> PyNone, y |-> PyNone]
Figura(x, y) == [dibujada |-> TRUE, x |-> x, y |-> y]
ReturnEn(valor, figura) == [st |-> "ok", exc |-> "", valor |-> valor, figura |-> figura]
RaiseEn(exc) == [st |-> "exc", exc |-> exc, valor |-> PyNone, figura |-> SinFigura]

\* equilibrium(supply, demand) of microeconomics/market.py.
equilibrium(supply, demand) ==
    LET solutions == solveSystem(supply.expr, demand.expr)
    IN  IF solutions.st = "exc" THEN RaiseEn("Exception")
        ELSE IF solutions.sols = <<>>
             THEN ReturnEn(PyTuple(<<PyStr, PyStr>>), SinFigura)
        ELSE LET results == solutions.sols[1]
             IN  IF "Q" \notin DOMAIN results \/ "P" \notin DOMAIN results
                 THEN RaiseEn("KeyError")
                 ELSE LET equilibriumQuantity == Num(results["Q"].k)
                          equilibriumPrice == Num(results["P"].k)
                      IN  ReturnEn(PyTuple(<<equilibriumQuantity, equilibriumPrice>>),
                                   SinFigura)

\* marketGraph(supply, demand) of graphs/microeconomics.py: the marker is
\* drawn at (equilibriumQuantity, equilibriumPrice) and nothing is returned.
marketGraph(supply, demand) ==
    LET par == equilibrium(supply, demand)
    IN  IF par.st = "exc" THEN par
        ELSE
        LET equilibriumPrice == par.valor.items[1]
            equilibriumQuantity == par.valor.items[2]
        IN  IF ~demand.lineal THEN RaiseEn("AttributeError")
            ELSE IF RIsZero(demand.pendiente) THEN RaiseEn("ZeroDivisionError")
            ELSE IF ~supply.lineal THEN RaiseEn("AttributeError")
            ELSE IF equilibriumPrice.t = "str" THEN RaiseEn("ValueError")
            ELSE ReturnEn(PyNone, Figura(equilibriumQuantity, equilibriumPrice))

\* surplusGraph(supply, demand) of graphs/microeconomics.py.
surplusGraph(supply, demand) ==
    LET par == equilibrium(supply, demand)
    IN  IF par.st = "exc" THEN par
        ELSE
        LET equilibriumPrice == par.valor.items[1]
            equilibriumQuantity == par.valor.items[2]
        IN  IF equilibriumQuantity.t = "str" THEN RaiseEn("TypeError")
            ELSE IF ~demand.lineal \/ ~supply.lineal THEN RaiseEn("AttributeError")
            ELSE ReturnEn(PyNone, Figura(equilibriumQuantity, equilibriumPrice))

(* ========================== memoizarResultado ========================== *)
\* An argument value: what it is and the text str() gives for it.  Two
\* objects may have the same text.
Valor(id, repr) == [id |-> id, repr |-> repr]

\* str(args): the texts of the positional arguments, in order.
strArgs(args) == [k \in 1..Len(args) |-> args[k].repr]

\* sorted(kwargs.items()) and its text: the (name, value) pairs in the
\* alphabetical order of the names, whatever the order of the call.
NombresOrdenados == <<"x", "y">>
sortedItems(kwargs) ==
    LET RECURSIVE Desde(_)
        Desde(k) ==
            IF k > Len(NombresOrdenados) THEN <<>>
            ELSE (IF \E j \in 1..Len(kwargs) : kwargs[j][1] = NombresOrdenados[k]
                  THEN LET j == CHOOSE j \in 1..Len(kwargs) :
                                   kwargs[j][1] = NombresOrdenados[k]
                       IN  << <<kwargs[j][1], kwargs[j][2].repr>> >>
                  ELSE <<>>) \o Desde(k + 1)
    IN  Desde(1)

\* clave = str(args) + str(sorted(kwargs.items()))
clave(args, kwargs) == <<strArgs(args), sortedItems(kwargs)>>

\* The wrapped function: it raises for the value "malo" and otherwise returns
\* a number that depends on how many times it has run (it is not pure).
func(args, kwargs, reloj) ==
    IF \E k \in 1..Len(args) : args[k].id = "malo"
    THEN [st |-> "exc", v |-> 0]
    ELSE [st |-> "ok", v |-> reloj + 1]

\* A variant of envoltura that runs the function on every call and stores
\* what it returns.
envoltura_sinCache(m, args, kwargs) ==
    LET k == clave(args, kwargs)
        r == func(args, kwargs, m.reloj)
    IN  [cache |-> IF r.st = "ok"
                   THEN [c \in DOMAIN m.cache \cup {k} |-> IF c = k THEN r.v ELSE m.cache[c]]
                   ELSE m.cache,
         invocaciones |-> [m.invocaciones EXCEPT ![k] = @ + 1],
         retornos |-> IF r.st = "ok" THEN [m.retornos EXCEPT ![k] = @ + 1] ELSE m.retornos,
         antes |-> m.cache,
         reloj |-> m.reloj + 1,
         ultima |-> [args |-> args, kwargs |-> kwargs, clave |-> k,
                     st |-> r.st, v |-> r.v, invocada |-> TRUE]]

\* envoltura(*args, **kwargs) of memoizarResultado, on the state m of the
\* decorated function: its cache, the number of runs and of returns of func
\* for every key, the cache before the call, and the call and its outcome.
envoltura(m, args, kwargs) ==
    LET k == clave(args, kwargs)
    IN  IF k \notin DOMAIN m.cache
        THEN LET r == func(args, kwargs, m.reloj)
             IN  [cache |-> IF r.st = "ok"
                            THEN [c \in DOMAIN m.cache \cup {k} |->
                                     IF c = k THEN r.v ELSE m.cache[c]]
                            ELSE m.cache,
                  invocaciones |-> [m.invocaciones EXCEPT ![k] = @ + 1],
                  retornos |-> IF r.st = "ok" THEN [m.retornos EXCEPT ![k] = @ + 1]
                               ELSE m.retornos,
                  antes |-> m.cache,
                  reloj |-> m.reloj + 1,
                  ultima |-> [args |-> args, kwargs |-> kwargs, clave |-> k,
                              st |-> r.st, v |-> r.v, invocada |-> TRUE]]
        ELSE [m EXCEPT !.antes = m.cache,
                       !.ultima = [args |-> args, kwargs |-> kwargs, clave |-> k,
                                   st |-> "ok", v |-> m.cache[k], invocada |-> FALSE]]

(* ========================== validarEconomico =========================== *)
\* validarRango(valor, minimo, maximo, nombre): both bounds are inclusive,
\* and a bound that is None is not tested.
validarRango(valor, minimo, maximo, nombre) ==
    LET f == float(valor)
    IN  IF f.st = "exc" THEN Raise("ErrorValidacion", nombre, FALSE)
        ELSE IF minimo.t # "none" /\ RLt(f.v, minimo.r)
             THEN Raise("ErrorValidacion", nombre, FALSE)
        ELSE IF maximo.t # "none" /\ RLt(maximo.r, f.v)
             THEN Raise("ErrorValidacion", nombre, FALSE)
        ELSE Return(f.v, Zero, FALSE)

validarPropension(valor, nombre) == validarRango(valor, Num(Zero), Num(One), nombre)

\* The decorated function:
\*   @validarEconomico(precio='positivo', cantidad='no_negativo',
\*                     pmc='propension', tasa=(-1, 1))
\*   def func(precio, cantidad=0, pmc=2, tasa=0)
\* validaciones keeps the order of the decorator's keywords; a rule is its
\* kind and, for a range, its bounds.
param_names == <<"precio", "cantidad", "pmc", "tasa">>
validaciones ==
    << [nombre |-> "precio", tipo |-> "positivo", min |-> PyNone, max |-> PyNone],
       [nombre |-> "cantidad", tipo |-> "no_negativo", min |-> PyNone, max |-> PyNone],
       [nombre |-> "pmc", tipo |-> "propension", min |-> PyNone, max |-> PyNone],
       [nombre |-> "tasa", tipo |-> "tuple", min |-> Num(RNeg(One)), max |-> Num(One)] >>
PorDefecto ==
    [n \in {"cantidad", "pmc", "tasa"} |->
        IF n = "pmc" THEN Num(Int2Rat(2)) ELSE Num(Zero)]

\* Lines 163-171: the validation of one parameter.
validarParametro(v, valor) ==
    CASE v.tipo = "positivo" -> validarPositivo(valor, v.nombre)
      [] v.tipo = "no_negativo" -> validarNoNegativo(valor, v.nombre)
      [] v.tipo = "propension" -> validarPropension(valor, v.nombre)
      [] v.tipo = "tuple" -> validarRango(valor, v.min, v.max, v.nombre)
      [] OTHER -> Return(Zero, Zero, FALSE)

\* Lines 142-149: the positional arguments under the names of the
\* parameters, then the keyword arguments over them.
args_dict(args, kwargs) ==
    [n \in { param_names[k] : k \in 1..Len(param_names) }
             \cap ({ param_names[k] : k \in 1..Len(args) } \cup DOMAIN kwargs) |->
        IF n \in DOMAIN kwargs THEN kwargs[n]
        ELSE args[CHOOSE k \in 1..Len(param_names) : param_names[k] = n]]

\* The outcome of a call of the decorated function: whether func ran, and
\* the value each parameter had in it.
ReturnDecorada(recibidos) ==
    [st |-> "ok", exc |-> "", det |-> "", ejecutada |-> TRUE, recibidos |-> recibidos]
RaiseDecorada(exc, det) ==
    [st |-> "exc", exc |-> exc, det |-> det, ejecutada |-> FALSE, recibidos |-> <<>>]

\* func(*args, **kwargs): Python binds the arguments; TypeError for a
\* parameter given twice or a required one that is missing.
llamarFunc(args, kwargs) ==
    LET posicionales == { param_names[k] : k \in 1..Len(args) }
    IN  IF posicionales \cap DOMAIN kwargs # {} THEN RaiseDecorada("TypeError", "")
        ELSE IF "precio" \notin posicionales \cup DOMAIN kwargs
             THEN RaiseDecorada("TypeError", "")
        ELSE ReturnDecorada(
                 [n \in { param_names[k] : k \in 1..Len(param_names) } |->
                     IF n \in DOMAIN kwargs THEN kwargs[n]
                     ELSE IF n \in posicionales
                          THEN args[CHOOSE k \in 1..Len(param_names) : param_names[k] = n]
                          ELSE PorDefecto[n]])

\* A variant of the wrapper that calls func before validating.
validarEconomico_despues(args, kwargs) ==
    llamarFunc(args, kwargs)

\* envoltura(*args, **kwargs) of validarEconomico.
validarEconomico(args, kwargs) ==
    LET dados == args_dict(args, kwargs)
        falla(k) ==
            /\ validaciones[k].nombre \in DOMAIN dados
            /\ validarParametro(validaciones[k], dados[validaciones[k].nombre]).st = "exc"
    IN  IF \E k \in 1..Len(validaciones) : falla(k)
        THEN LET k == CHOOSE k \in 1..Len(validaciones) :
                          falla(k) /\ \A j \in 1..(k - 1) : ~falla(j)
             IN  RaiseDecorada("ErrorValidacion", validaciones[k].nombre)
        ELSE llamarFunc(args, kwargs)

(* ================================ Lienzo =============================== *)
\* None, for a tuple or a text of the canvas.
Nada == <<>>

\* Lienzo(matriz=...): lines 286-316.  ultima records the last method called
\* on the canvas and whether it returned.
Lienzo(matriz) ==
    [matriz |-> matriz,
     cuadrante_actual |-> Nada,
     funciones |-> <<>>,
     funciones_por_cuadrante |-> <<>>,
     indiceColor |-> 0,
     etiquetaX |-> "x", etiquetaY |-> "y", titulo |-> "",
     rangoX |-> Nada, rangoY |-> Nada, pasoX |-> Nada, pasoY |-> Nada,
     ultima |-> [op |-> "__init__", st |-> "ok", exc |-> ""]]

\* Lienzo.cuadrante once its arguments are accepted: lines 351-408.
seleccionar(l, fila, columna, alinearX, alinearY) ==
    LET alinear_x_validado ==
            IF alinearX = "ARRIBA" /\ fila > 1 THEN "ARRIBA"
            ELSE IF alinearX = "ABAJO" /\ fila < l.matriz[1] THEN "ABAJO"
            ELSE "None"
        alinear_y_validado ==
            IF alinearY = "IZQUIERDA" /\ columna > 1 THEN "IZQUIERDA"
            ELSE IF alinearY = "DERECHA" /\ columna < l.matriz[2] THEN "DERECHA"
            ELSE "None"
        celda == <<fila - 1, columna - 1>>
        nueva == [funciones |-> <<>>, etiquetaX |-> "x", etiquetaY |-> "y",
                  titulo |-> "", rangoX |-> Nada, rangoY |-> Nada,
                  pasoX |-> Nada, pasoY |-> Nada, indiceColor |-> 0,
                  alinearX |-> alinear_x_validado, alinearY |-> alinear_y_validado]
    IN  [l EXCEPT
           !.cuadrante_actual = celda,
           !.etiquetaX = "x", !.etiquetaY = "y", !.titulo = "",
           !.rangoX = Nada, !.rangoY = Nada, !.pasoX = Nada, !.pasoY = Nada,
           !.funciones_por_cuadrante =
               [c \in DOMAIN l.funciones_por_cuadrante \cup {celda} |->
                   IF c # celda THEN l.funciones_por_cuadrante[c]
                   ELSE IF celda \in DOMAIN l.funciones_por_cuadrante
                        THEN [l.funciones_por_cuadrante[c] EXCEPT
                                 !.alinearX = alinear_x_validado,
                                 !.alinearY = alinear_y_validado]
                        ELSE nueva],
           !.ultima = [op |-> "cuadrante", st |-> "ok", exc |-> ""]]

\* A variant of cuadrante that selects the cell before validating it.
Lienzo_cuadrante_sinValidar(l, fila, columna, alinearX, alinearY) ==
    IF l.matriz = Nada \/ fila < 1 \/ fila > l.matriz[1]
          \/ columna < 1 \/ columna > l.matriz[2]
    THEN [l EXCEPT !.cuadrante_actual = <<fila - 1, columna - 1>>,
                   !.ultima = [op |-> "cuadrante", st |-> "exc", exc |-> "ValueError"]]
    ELSE seleccionar(l, fila, columna, alinearX, alinearY)

\* Lienzo.cuadrante(fila, columna, alinearX, alinearY): lines 338-349 raise
\* before anything is assigned.
Lienzo_cuadrante(l, fila, columna, alinearX, alinearY) ==
    IF l.matriz = Nada \/ fila < 1 \/ fila > l.matriz[1]
          \/ columna < 1 \/ columna > l.matriz[2]
    THEN [l EXCEPT !.ultima = [op |-> "cuadrante", st |-> "exc", exc |-> "ValueError"]]
    ELSE seleccionar(l, fila, columna, alinearX, alinearY)

\* Lienzo.configurarEtiquetas(titulo=...): lines 425-441, for a call that
\* gives the title only.
Lienzo_configurarEtiquetas(l, titulo) ==
    LET enMatriz == l.matriz # Nada /\ l.cuadrante_actual # Nada
    IN  [l EXCEPT
           !.titulo = IF titulo # "" THEN titulo ELSE @,
           !.funciones_por_cuadrante =
               IF enMatriz /\ titulo # ""
               THEN [@ EXCEPT ![l.cuadrante_actual].titulo = titulo]
               ELSE @,
           !.ultima = [op |-> "configurarEtiquetas", st |-> "ok", exc |-> ""]]

\* A variant of guardar that stores in the general list whatever the mode.
guardar_general(l, datos, op) ==
    [l EXCEPT !.funciones = Append(@, datos),
              !.ultima = [op |-> op, st |-> "ok", exc |-> ""]]

\* The last lines of the five agregar methods (546-549, 600-603, 633-636,
\* 666-669, 718-721): the element goes to the current quadrant of a matrix
\* canvas, and to the general list otherwise.
guardar(l, datos, op) ==
    IF l.matriz # Nada /\ l.cuadrante_actual # Nada
    THEN [l EXCEPT !.funciones_por_cuadrante[l.cuadrante_actual].funciones =
                        Append(@, datos),
                   !.ultima = [op |-> op, st |-> "ok", exc |-> ""]]
    ELSE [l EXCEPT !.funciones = Append(@, datos),
                   !.ultima = [op |-> op, st |-> "ok", exc |-> ""]]

\* Lienzo.agregar(funcion) for a callable and no color: the color comes from
\* the palette, by the index of the current quadrant (lines 527-530) or of
\* the canvas (line 532).
Lienzo_agregar(l) ==
    LET enMatriz == l.matriz # Nada /\ l.cuadrante_actual # Nada
        conColor ==
            IF enMatriz
            THEN [l EXCEPT !.funciones_por_cuadrante[l.cuadrante_actual].indiceColor = @ + 1]
            ELSE [l EXCEPT !.indiceColor = @ + 1]
    IN  guardar(conColor, "curva", "agregar")

\* Lienzo.agregarRelleno(funcion1) with no color: line 711 takes the next
\* color of the canvas.
Lienzo_agregarRelleno(l) ==
    guardar([l EXCEPT !.indiceColor = @ + 1], "relleno", "agregarRelleno")

\* The number of elements the canvas holds.
Elementos(l) ==
    LET RECURSIVE Suma(_)
        Suma(S) == IF S = {} THEN 0
                   ELSE LET c == CHOOSE c \in S : TRUE
                        IN  Len(l.funciones_por_cuadrante[c].funciones) + Suma(S \ {c})
    IN  Len(l.funciones) + Suma(DOMAIN l.funciones_por_cuadrante)

(* ------------------------- the enumerated inputs ----------------------- *)
\* "Q = k + mP"
EcLineal(k, m) == <<LadoQ, Lado(0, m, k)>>
EcuacionesLineales == { EcLineal(k, m) : k \in -MaxK..MaxK, m \in -MaxM..MaxM }

EcDemandaDoc == EcLineal(100, -2)            \* "Q = 100 - 2P"
EcOfertaDoc == EcLineal(-20, 3)              \* "Q = -20 + 3P"
EcParalela10 == EcLineal(10, -1)             \* "Q = 10 - P"
EcParalela20 == EcLineal(20, -1)             \* "Q = 20 - P"
EcInversa == <<LadoP, Lado(-1, 0, 2)>>       \* "P = 2 - Q"
EcSinIgual == <<Lado(1, -1, 1)>>             \* "Q - P + 1"
EcIlegible == <<LadoMalo>>                   \* text the grammar rejects
EcVertical == <<LadoP, Lado(0, 0, 1)>>       \* "P = 1"
EcDosIguales == <<LadoQ, Lado(0, 1, 0), Lado(0, 0, 1)>>   \* "Q = P = 1"

EcLadoIlegible == <<LadoQ, LadoMalo>>        \* "Q = " and text the grammar rejects

EcuacionesDemanda ==
    EcuacionesLineales \cup {EcDemandaDoc, EcParalela10, EcInversa, EcIlegible,
                             EcLadoIlegible}
EcuacionesOferta ==
    EcuacionesLineales \cup {EcOfertaDoc, EcParalela20, EcSinIgual, EcIlegible,
                             EcDosIguales, EcVertical}

\* Arguments a caller writes down: small numbers, None and a string.
ArgsNumericos == { Num(Int2Rat(n)) : n \in -1..MaxArg }
ArgsFrescos == ArgsNumericos \cup {PyNone, PyStr}
\* The documented elasticity examples: (precio, cantidad).
ArgsElasticidadDoc ==
    { <<Num(Int2Rat(10)), Num(Int2Rat(80))>>, <<Num(Int2Rat(15)), Num(Int2Rat(25))>> }

\* Values handed to validarElasticidad, and its tipo argument.
ValoresElasticidad == ArgsFrescos \cup {PyNaN, PyInf, PyNegInf}
TiposElasticidad == {"demanda", "oferta", "general"}

\* The texts given to the macro model: the documented behavioural equations
\* "C = 200 + 0.8(Y - T)", "I = 1000 - 50r", "L = 0.25Y - 50r", the same
\* functions written without a left-hand side, and a few others.
FuncionConsumo == Coefs({<<"1", Int2Rat(200)>>, <<"Y", Rat(4, 5)>>, <<"T", Rat(-4, 5)>>})
FuncionInversion(tasa) == Coefs({<<"1", Int2Rat(1000)>>, <<tasa, Int2Rat(-50)>>})
FuncionDinero(tasa) == Coefs({<<"Y", Rat(1, 4)>>, <<tasa, Int2Rat(-50)>>})
NombresTasa == {"r", "rho", "rate", "i"}

TextosConsumo ==
    { <<LadoM(Simbolo("C").c, FALSE), LadoM(FuncionConsumo, FALSE)>>,
      <<LadoM(FuncionConsumo, FALSE)>>,
      <<LadoM(FuncionConsumo, TRUE)>>,
      <<LadoMMalo>> }
TextosInversion ==
    { <<LadoM(Simbolo("I").c, FALSE), LadoM(FuncionInversion(t), FALSE)>> : t \in NombresTasa }
        \cup { <<LadoM(FuncionInversion(t), FALSE)>> : t \in NombresTasa }
        \cup { <<LadoM(Coefs({<<"1", Int2Rat(1000)>>}), FALSE)>> }
TextosDinero ==
    { <<LadoM(Simbolo("L").c, FALSE), LadoM(FuncionDinero(t), FALSE)>> : t \in {"r", "i"} }
        \cup { <<LadoM(FuncionDinero(t), FALSE)>> : t \in {"r", "i"} }
        \cup { <<LadoM(Coefs({<<"Y", Rat(1, 4)>>}), FALSE)>>,
               <<LadoM(Simbolo("MP").c, FALSE)>> }
GastosPublicos == {Int2Rat(900)} \cup {Int2Rat(g) : g \in 0..MaxArg}
NivelesPrecios == {Int2Rat(p) : p \in 1..(MaxM + 1)}

\* The curves given to the English functions: the ones of test/test.py,
\* Supply(10, 2) and Demand(100, 3), small ones, and EconomicFunction
\* objects built from texts.
TextosEn == {EcDemandaDoc, EcOfertaDoc, EcParalela10, EcParalela20, EcIlegible}
Supplies ==
    { Supply(Int2Rat(c), Int2Rat(d)) : c \in {10} \cup 0..MaxK, d \in {2} \cup 0..MaxM }
        \cup { EconomicFunction(tex) : tex \in TextosEn }
Demands ==
    { Demand(Int2Rat(a), Int2Rat(b)) : a \in {100} \cup 0..MaxK, b \in {3} \cup 0..MaxM }
        \cup { EconomicFunction(tex) : tex \in TextosEn }

\* The calls made to the memoized function: f(1), f(x=1), f(x=1, y=2),
\* f(y=2, x=1), f(a) and f(b) for two objects with the same text, and
\* f(malo), for which the function raises.
LlamadasMemo ==
    LET ValorUno == Valor("1", "1")
        ValorDos == Valor("2", "2")
        ObjetoA == Valor("a", "Curva")
        ObjetoB == Valor("b", "Curva")
        ValorMalo == Valor("malo", "0")
    IN  { << <<ValorUno>>, <<>> >>,
          << <<>>, << <<"x", ValorUno>> >> >>,
          << <<>>, << <<"x", ValorUno>>, <<"y", ValorDos>> >> >>,
          << <<>>, << <<"y", ValorDos>>, <<"x", ValorUno>> >> >>,
          << <<ObjetoA>>, <<>> >>,
          << <<ObjetoB>>, <<>> >>,
          << <<ValorMalo>>, <<>> >> }
Claves == { clave(c[1], c[2]) : c \in LlamadasMemo }

\* The calls of the decorated function: up to two positional arguments and
\* at most one keyword argument, each a small number, 1/2 or a string.
ValoresDecorada ==
    { Num(Int2Rat(n)) : n \in -1..(MaxArg + 1) } \cup { Num(Rat(1, 2)), PyStr }
ArgsDecorada ==
    { <<>> } \cup { <<a>> : a \in ValoresDecorada }
             \cup { <<a, b>> : a \in ValoresDecorada, b \in ValoresDecorada }
KwargsDecorada ==
    { <<>> } \cup { [n \in {nombre} |-> v] :
                      nombre \in {"precio", "cantidad", "pmc", "tasa"},
                      v \in ValoresDecorada }

\* The canvases: one without a matrix and one with matriz=(1, 2).
Matrices == { Nada, <<1, 2>> }

(* -------------------------------- state -------------------------------- *)
\* The objects are the state of the program; ultima and previa record what
\* the caller has done with them: a chain of calls in which every call after
\* the first takes its argument from what the call before it returned.
VARIABLES
    demanda,    \* the Demanda object
    oferta,     \* the Oferta object
    ultima,     \* the last call of the chain and its outcome
    previa,     \* the call before it in the chain
    consola,    \* what the program has printed
    islm,       \* the last call of the macro model and its outcome
    grafica,    \* the last call of the English API and its outcome
    memo,       \* the function decorated with memoizarResultado
    decorada,   \* the last call of the function decorated with validarEconomico
    lienzo      \* the Lienzo object

vars ==
    <<demanda, oferta, ultima, previa, consola, islm, grafica, memo, decorada, lienzo>>
mercado == <<demanda, oferta, ultima, previa, consola>>
\* What the calls of the market model leave alone.
fuera == <<islm, grafica, memo, decorada, lienzo>>

\* cadena: the number of calls of the chain made before this one.
Llamada(op, curva, a1, a2, res, cadena) ==
    [op |-> op, curva |-> curva, a1 |-> a1, a2 |-> a2, res |-> res, cadena |-> cadena]
SinLlamada == Llamada("ninguna", "", PyNone, PyNone, Raise("", "", FALSE), 0)

LlamadaISLM(op, c, i, l, g, t, m, p, res) ==
    [op |-> op, consumo |-> c, inversion |-> i, demandaDinero |-> l,
     G |-> g, T |-> t, M |-> m, P |-> p, res |-> res]
SinISLM ==
    LlamadaISLM("ninguna", <<>>, <<>>, <<>>, Zero, Zero, Zero, One,
                RaiseISLM("", "", ExprMNone, ExprMNone))

LlamadaEn(op, supply, demand, res) ==
    [op |-> op, supply |-> supply, demand |-> demand, res |-> res]
SinGrafica ==
    LlamadaEn("ninguna", EconomicFunction(EcIlegible), EconomicFunction(EcIlegible),
              RaiseEn(""))

\* The decorated function before its first call: cache = {}.
SinMemo ==
    [cache |-> <<>>,
     invocaciones |-> [k \in Claves |-> 0],
     retornos |-> [k \in Claves |-> 0],
     antes |-> <<>>,
     reloj |-> 0,
     ultima |-> [args |-> <<>>, kwargs |-> <<>>, clave |-> <<>>,
                 st |-> "", v |-> 0, invocada |-> FALSE]]

SinDecorada == [args |-> <<>>, kwargs |-> <<>>, res |-> RaiseDecorada("", "")]

\* The other objects, as constructed.
FueraInicial ==
    /\ islm = SinISLM
    /\ grafica = SinGrafica
    /\ memo = SinMemo
    /\ decorada = SinDecorada
    /\ lienzo = Lienzo(Nada)

Init ==
    /\ \E ec \in EcuacionesDemanda : demanda = Demanda(ec)
    /\ \E ec \in EcuacionesOferta : oferta = Oferta(ec)
    /\ ultima = SinLlamada
    /\ previa = SinLlamada
    /\ consola = Diagnostico(demanda.ecuacionOriginal)
                    \o Diagnostico(oferta.ecuacionOriginal)
    /\ FueraInicial

\* The numbers returned by the last call, which the caller may pass on.
Devueltos ==
    IF ultima.res.st # "ok" \/ ultima.cadena >= MaxCadena THEN {}
    ELSE IF ultima.op = "equilibrio"
         THEN {Num(ultima.res.v1), Num(ultima.res.v2)}
    ELSE IF ultima.op \in {"cantidad", "precio", "elasticidadPrecio"}
         THEN {Num(ultima.res.v1)}
         ELSE {}

\* The first call of a chain takes an argument the caller writes down, a
\* later one a number the call before it returned.
ArgsUnarios == IF ultima = SinLlamada THEN ArgsFrescos ELSE Devueltos
CadenaSiguiente == IF ultima = SinLlamada THEN 0 ELSE ultima.cadena + 1

\* elasticidadPrecio(precio, cantidad): arguments written down by the
\* caller (every kind of value in either position, the other being 1, and
\* the documented points), or the (P*, Q*) that equilibrio has just returned.
ArgsElasticidad ==
    IF ultima = SinLlamada
    THEN { a \in ArgsFrescos \X ArgsFrescos : a[1] = Num(One) \/ a[2] = Num(One) }
            \cup ArgsElasticidadDoc
    ELSE IF ultima.op = "equilibrio" /\ ultima.res.st = "ok" /\ ultima.cadena < MaxCadena
         THEN { <<Num(ultima.res.v1), Num(ultima.res.v2)>> }
         ELSE {}

\* The caller starts a new chain.
NuevaCadena ==
    /\ ultima # SinLlamada
    /\ ultima' = SinLlamada
    /\ previa' = SinLlamada
    /\ UNCHANGED <<demanda, oferta, consola, fuera>>

LlamarEquilibrio ==
    /\ ultima = SinLlamada
    /\ ultima' = Llamada("equilibrio", "", PyNone, PyNone, equilibrio(oferta, demanda), 0)
    /\ previa' = ultima
    /\ UNCHANGED <<demanda, oferta, consola, fuera>>

\* A variant of the cantidad call in which the object consumes its expression.
LlamarDemandaCantidad_consume ==
    /\ \E a \in ArgsUnarios :
          ultima' = Llamada("cantidad", "demanda", a, PyNone,
                            Demanda_cantidad(demanda, a), CadenaSiguiente)
    /\ previa' = ultima
    /\ demanda' = [demanda EXCEPT !.expresion = ExprNone]
    /\ UNCHANGED <<oferta, consola, fuera>>

LlamarDemandaCantidad ==
    /\ \E a \in ArgsUnarios :
          ultima' = Llamada("cantidad", "demanda", a, PyNone,
                            Demanda_cantidad(demanda, a), CadenaSiguiente)
    /\ previa' = ultima
    /\ UNCHANGED <<demanda, oferta, consola, fuera>>

LlamarDemandaPrecio ==
    /\ \E a \in ArgsUnarios :
          ultima' = Llamada("precio", "demanda", a, PyNone,
                            Demanda_precio(demanda, a), CadenaSiguiente)
    /\ previa' = ultima
    /\ UNCHANGED <<demanda, oferta, consola, fuera>>

LlamarDemandaElasticidad ==
    /\ \E a \in ArgsElasticidad :
          ultima' = Llamada("elasticidadPrecio", "demanda", a[1], a[2],
                            Demanda_elasticidadPrecio(demanda, a[1], a[2]),
                            CadenaSiguiente)
    /\ previa' = ultima
    /\ UNCHANGED <<demanda, oferta, consola, fuera>>

LlamarOfertaCantidad ==
    /\ \E a \in ArgsUnarios :
          ultima' = Llamada("cantidad", "oferta", a, PyNone,
                            Oferta_cantidad(oferta, a), CadenaSiguiente)
    /\ previa' = ultima
    /\ UNCHANGED <<demanda, oferta, consola, fuera>>

LlamarOfertaPrecio ==
    /\ \E a \in ArgsUnarios :
          ultima' = Llamada("precio", "oferta", a, PyNone,
                            Oferta_precio(oferta, a), CadenaSiguiente)
    /\ previa' = ultima
    /\ UNCHANGED <<demanda, oferta, consola, fuera>>

LlamarOfertaElasticidad ==
    /\ \E a \in ArgsElasticidad :
          ultima' = Llamada("elasticidadPrecio", "oferta", a[1], a[2],
                            Oferta_elasticidadPrecio(oferta, a[1], a[2]),
                            CadenaSiguiente)
    /\ previa' = ultima
    /\ UNCHANGED <<demanda, oferta, consola, fuera>>

LlamarDemandaInterpretar ==
    /\ \E a \in ArgsElasticidad :
          ultima' = Llamada("interpretarElasticidad", "demanda", a[1], a[2],
                            Demanda_interpretarElasticidad(demanda, a[1], a[2]),
                            CadenaSiguiente)
    /\ previa' = ultima
    /\ UNCHANGED <<demanda, oferta, consola, fuera>>

LlamarOfertaInterpretar ==
    /\ \E a \in ArgsElasticidad :
          ultima' = Llamada("interpretarElasticidad", "oferta", a[1], a[2],
                            Oferta_interpretarElasticidad(oferta, a[1], a[2]),
                            CadenaSiguiente)
    /\ previa' = ultima
    /\ UNCHANGED <<demanda, oferta, consola, fuera>>

\* validarElasticidad(valor, "elasticidad", tipo) on a value the caller
\* writes down or on the elasticity that elasticidadPrecio has just returned.
ArgsValidarElasticidad ==
    IF ultima = SinLlamada THEN ValoresElasticidad
    ELSE IF ultima.op = "elasticidadPrecio" /\ ultima.res.st = "ok"
            /\ ultima.cadena < MaxCadena
         THEN {Num(ultima.res.v1)}
         ELSE {}

LlamarValidarElasticidad ==
    /\ \E valor \in ArgsValidarElasticidad, tipo \in TiposElasticidad :
          ultima' = Llamada("validarElasticidad", tipo, valor, PyNone,
                            validarElasticidad(valor, "elasticidad", tipo),
                            CadenaSiguiente)
    /\ previa' = ultima
    /\ UNCHANGED <<demanda, oferta, consola, fuera>>

\* excedentes(oferta, demanda, precio, cantidad), alone or right after a
\* call of equilibrio, whose P* and Q* the caller may also pass on.
ArgsExcedentes ==
    IF ultima = SinLlamada THEN ArgsFrescos \X ArgsFrescos
    ELSE IF ultima.op = "equilibrio" /\ ultima.cadena < MaxCadena
         THEN {<<PyNone, PyNone>>} \cup
              (IF ultima.res.st = "ok"
               THEN {<<Num(ultima.res.v1), Num(ultima.res.v2)>>,
                     <<Num(ultima.res.v1), PyNone>>, <<PyNone, Num(ultima.res.v2)>>}
               ELSE {})
         ELSE {}

LlamarExcedentes ==
    /\ \E a \in ArgsExcedentes :
          ultima' = Llamada("excedentes", "", a[1], a[2],
                            excedentes(oferta, demanda, a[1], a[2]), CadenaSiguiente)
    /\ previa' = ultima
    /\ UNCHANGED <<demanda, oferta, consola, fuera>>

\* validarEcuacion on the text one of the curves was built from.
LlamarValidarEcuacion ==
    /\ ultima = SinLlamada
    /\ \E c \in {"demanda", "oferta"} :
          ultima' = Llamada("validarEcuacion", c, PyNone, PyNone,
                            validarEcuacion(IF c = "demanda"
                                            THEN demanda.ecuacionOriginal
                                            ELSE oferta.ecuacionOriginal), 0)
    /\ previa' = ultima
    /\ UNCHANGED <<demanda, oferta, consola, fuera>>

Next ==
    \/ NuevaCadena
    \/ LlamarEquilibrio
    \/ LlamarDemandaCantidad
    \/ LlamarDemandaPrecio
    \/ LlamarDemandaElasticidad
    \/ LlamarOfertaCantidad
    \/ LlamarOfertaPrecio
    \/ LlamarOfertaElasticidad
    \/ LlamarDemandaInterpretar
    \/ LlamarOfertaInterpretar
    \/ LlamarValidarElasticidad
    \/ LlamarExcedentes
    \/ LlamarValidarEcuacion

Spec == Init /\ [][Next]_vars


(* ------------------------- the macro model ----------------------------- *)
\* The market objects of the documented example, untouched.
MercadoDoc ==
    /\ demanda = Demanda(EcDemandaDoc)
    /\ oferta = Oferta(EcOfertaDoc)
    /\ ultima = SinLlamada
    /\ previa = SinLlamada
    /\ consola = <<>>

\* The initial state of the specifications below: every object as
\* constructed, the market curves being the documented ones.
InitObjetos ==
    /\ MercadoDoc
    /\ FueraInicial

\* The model object keeps nothing between calls: every call is made on the
\* object as constructed.

LlamarISLMEquilibrio ==
    /\ islm = SinISLM
    /\ \E c \in TextosConsumo, i \in TextosInversion, l \in TextosDinero,
          g \in GastosPublicos, p \in NivelesPrecios :
          islm' = LlamadaISLM("equilibrio", c, i, l, g, Int2Rat(800), Int2Rat(3400), p,
                     ISLM_equilibrio(c, i, l, g, Int2Rat(800), Int2Rat(3400), p))
    /\ UNCHANGED <<mercado, grafica, memo, decorada, lienzo>>

LlamarISLMEquilibrium ==
    /\ islm = SinISLM
    /\ \E c \in TextosConsumo, i \in TextosInversion, l \in TextosDinero,
          g \in GastosPublicos, p \in NivelesPrecios :
          islm' = LlamadaISLM("equilibrium", c, i, l, g, Int2Rat(800), Int2Rat(3400), p,
                     ISLM_equilibrium(c, i, l, g, Int2Rat(800), Int2Rat(3400), p))
    /\ UNCHANGED <<mercado, grafica, memo, decorada, lienzo>>

NextISLM ==
    \/ LlamarISLMEquilibrio
    \/ LlamarISLMEquilibrium

SpecISLM == InitObjetos /\ [][NextISLM]_vars

(* --------------------------- the English API --------------------------- *)
LlamarEquilibrium ==
    /\ grafica = SinGrafica
    /\ \E s \in Supplies, d \in Demands :
          grafica' = LlamadaEn("equilibrium", s, d, equilibrium(s, d))
    /\ UNCHANGED <<mercado, islm, memo, decorada, lienzo>>

LlamarMarketGraph ==
    /\ grafica = SinGrafica
    /\ \E s \in Supplies, d \in Demands :
          grafica' = LlamadaEn("marketGraph", s, d, marketGraph(s, d))
    /\ UNCHANGED <<mercado, islm, memo, decorada, lienzo>>

LlamarSurplusGraph ==
    /\ grafica = SinGrafica
    /\ \E s \in Supplies, d \in Demands :
          grafica' = LlamadaEn("surplusGraph", s, d, surplusGraph(s, d))
    /\ UNCHANGED <<mercado, islm, memo, decorada, lienzo>>

NextEn ==
    \/ LlamarEquilibrium
    \/ LlamarMarketGraph
    \/ LlamarSurplusGraph

SpecEn == InitObjetos /\ [][NextEn]_vars

(* ------------------------ the memoized function ------------------------ *)
\* A call of the decorated function; the runs of the wrapped function are
\* counted up to MaxReloj.
LlamarMemoizada ==
    /\ \E c \in LlamadasMemo :
          /\ clave(c[1], c[2]) \in DOMAIN memo.cache \/ memo.reloj < MaxReloj
          /\ memo' = envoltura(memo, c[1], c[2])
    /\ UNCHANGED <<mercado, islm, grafica, decorada, lienzo>>

NextMemo ==
    \/ LlamarMemoizada

SpecMemo == InitObjetos /\ [][NextMemo]_vars

(* ------------------------ the validated function ----------------------- *)
LlamarDecorada ==
    /\ decorada = SinDecorada
    /\ \E a \in ArgsDecorada, k \in KwargsDecorada :
          decorada' = [args |-> a, kwargs |-> k, res |-> validarEconomico(a, k)]
    /\ UNCHANGED <<mercado, islm, grafica, memo, lienzo>>

NextValidar ==
    \/ LlamarDecorada

SpecValidar == InitObjetos /\ [][NextValidar]_vars

(* ------------------------------ the canvas ----------------------------- *)
InitLienzo ==
    /\ MercadoDoc
    /\ islm = SinISLM
    /\ grafica = SinGrafica
    /\ memo = SinMemo
    /\ decorada = SinDecorada
    /\ \E m \in Matrices : lienzo = Lienzo(m)

LlamarCuadrante ==
    /\ \E fila \in 0..2, columna \in 0..3 :
          lienzo' = Lienzo_cuadrante(lienzo, fila, columna, "None", "None")
    /\ UNCHANGED <<mercado, islm, grafica, memo, decorada>>

LlamarConfigurarEtiquetas ==
    /\ lienzo' = Lienzo_configurarEtiquetas(lienzo, "T")
    /\ UNCHANGED <<mercado, islm, grafica, memo, decorada>>

\* Lienzo.configurarRango(rangoX=(0, 10)): lines 456-458.
LlamarConfigurarRango ==
    /\ lienzo' = [lienzo EXCEPT
                     !.rangoX = <<0, 10>>, !.rangoY = Nada,
                     !.ultima = [op |-> "configurarRango", st |-> "ok", exc |-> ""]]
    /\ UNCHANGED <<mercado, islm, grafica, memo, decorada>>

LlamarAgregar ==
    /\ Elementos(lienzo) < MaxElementos
    /\ lienzo' = Lienzo_agregar(lienzo)
    /\ UNCHANGED <<mercado, islm, grafica, memo, decorada>>

LlamarAgregarPunto ==
    /\ Elementos(lienzo) < MaxElementos
    /\ lienzo' = guardar(lienzo, "punto", "agregarPunto")
    /\ UNCHANGED <<mercado, islm, grafica, memo, decorada>>

LlamarAgregarLineaVertical ==
    /\ Elementos(lienzo) < MaxElementos
    /\ lienzo' = guardar(lienzo, "linea_vertical", "agregarLineaVertical")
    /\ UNCHANGED <<mercado, islm, grafica, memo, decorada>>

LlamarAgregarLineaHorizontal ==
    /\ Elementos(lienzo) < MaxElementos
    /\ lienzo' = guardar(lienzo, "linea_horizontal", "agregarLineaHorizontal")
    /\ UNCHANGED <<mercado, islm, grafica, memo, decorada>>

LlamarAgregarRelleno ==
    /\ Elementos(lienzo) < MaxElementos
    /\ lienzo' = Lienzo_agregarRelleno(lienzo)
    /\ UNCHANGED <<mercado, islm, grafica, memo, decorada>>

NextLienzo ==
    \/ LlamarCuadrante
    \/ LlamarConfigurarEtiquetas
    \/ LlamarConfigurarRango
    \/ LlamarAgregar
    \/ LlamarAgregarPunto
    \/ LlamarAgregarLineaVertical
    \/ LlamarAgregarLineaHorizontal
    \/ LlamarAgregarRelleno

SpecLienzo == InitLienzo /\ [][NextLienzo]_vars

(* ======================================================================= *)
(*                              the claims                                 *)
(* ======================================================================= *)
\* The text is "Q = k + mP": the standard linear form.
EsLineal(ec) == Len(ec) = 2 /\ ec[1] = LadoQ /\ ~ec[2].malo /\ ec[2].q = 0

\* Demand Q = a - bP and supply Q = c + dP: the coefficients of the texts.
CoefA == demanda.ecuacionOriginal[2].k
CoefB == -demanda.ecuacionOriginal[2].p
CoefC == oferta.ecuacionOriginal[2].k
CoefD == oferta.ecuacionOriginal[2].p

AmbasLineales == EsLineal(demanda.ecuacionOriginal) /\ EsLineal(oferta.ecuacionOriginal)
CasoEstandar == AmbasLineales /\ CoefB > 0 /\ CoefD > 0 /\ CoefA > CoefC

RGe0(x) == RLe(Zero, x)

\* The closed form of the linear equilibrium.
PrecioCerrado == Rat(CoefA - CoefC, CoefB + CoefD)
CantidadCerrada == RSub(Int2Rat(CoefA), RMul(Int2Rat(CoefB), PrecioCerrado))

DevuelveFormaCerrada ==
    /\ ultima.res.st = "ok"
    /\ ultima.res.v1 = PrecioCerrado
    /\ ultima.res.v2 = CantidadCerrada
    /\ RGe0(ultima.res.v1) /\ RGe0(ultima.res.v2)

\* C1 as stated: for every linear demand Q = a - bP and supply Q = c + dP
\* with b > 0, d > 0 and a > c, equilibrio succeeds and returns
\* P* = (a-c)/(b+d) and Q* = a - b*P*, both non-negative.
C1_Original ==
    (ultima.op = "equilibrio" /\ CasoEstandar) => DevuelveFormaCerrada

\* C1 amended: the same, for the pairs whose crossing has a non-negative
\* quantity, a*d + b*c >= 0; the other pairs are refused with ErrorEquilibrio.
\* The documented pair a=100, b=2, c=-20, d=3 gives P* = 24, Q* = 52.
C1_Equilibrio ==
    /\ (ultima.op = "equilibrio" /\ CasoEstandar
          /\ CoefA * CoefD + CoefB * CoefC >= 0) => DevuelveFormaCerrada
    /\ (ultima.op = "equilibrio" /\ CasoEstandar
          /\ CoefA * CoefD + CoefB * CoefC < 0) =>
             (ultima.res.st = "exc" /\ ultima.res.exc = "ErrorEquilibrio")
    /\ (ultima.op = "equilibrio" /\ demanda.ecuacionOriginal = EcDemandaDoc
          /\ oferta.ecuacionOriginal = EcOfertaDoc) =>
             (ultima.res.st = "ok" /\ ultima.res.v1 = <<24, 1>> /\ ultima.res.v2 = <<52, 1>>)

C1_Witness ==
    /\ ultima.op = "equilibrio"
    /\ demanda.ecuacionOriginal = EcDemandaDoc
    /\ oferta.ecuacionOriginal = EcOfertaDoc
    /\ ultima.res.st = "ok"
    /\ ultima.res.v1 = <<24, 1>>

\* The two curves cross in exactly one point and that point has a negative
\* coordinate (decided on the texts, for the standard linear form).
CruceUnicoNegativo ==
    /\ AmbasLineales
    /\ CoefB + CoefD # 0
    /\ \/ RLt(PrecioCerrado, Zero)
       \/ RLt(CantidadCerrada, Zero)

\* C2: every mapping returned by equilibrio has P* >= 0 and Q* >= 0; when the
\* single solution has a negative price or quantity, equilibrio raises
\* ErrorEquilibrio instead of returning it.
C2_NoNegativo ==
    ultima.op = "equilibrio" =>
        /\ ultima.res.st = "ok" => (RGe0(ultima.res.v1) /\ RGe0(ultima.res.v2))
        /\ CruceUnicoNegativo =>
              /\ ultima.res.st = "exc"
              /\ ultima.res.exc = "ErrorEquilibrio"
              /\ ultima.res.det = "valores negativos"

C2_Witness ==
    /\ ultima.op = "equilibrio"
    /\ CruceUnicoNegativo
    /\ ultima.res.exc = "ErrorEquilibrio"

\* Two parallel, distinct lines: same slope, different intercepts.
Paralelas ==
    /\ AmbasLineales
    /\ CoefB + CoefD = 0
    /\ CoefA # CoefC

\* C3: when the system of the two curves has no solution (parallel curves
\* such as Q = 10 - P and Q = 20 - P), equilibrio raises ErrorEquilibrio
\* "no equilibrium exists" and returns nothing.
C3_SinEquilibrio ==
    (ultima.op = "equilibrio" /\ Paralelas) =>
        /\ ultima.res.st = "exc"
        /\ ultima.res.exc = "ErrorEquilibrio"
        /\ ultima.res.det = "no existe equilibrio"

C3_Witness ==
    /\ ultima.op = "equilibrio"
    /\ demanda.ecuacionOriginal = EcParalela10
    /\ oferta.ecuacionOriginal = EcParalela20
    /\ ultima.res.det = "no existe equilibrio"

\* The two texts describe the same line: the system is under-determined.
CurvasIdenticas ==
    /\ AmbasLineales
    /\ CoefB + CoefD = 0
    /\ CoefA = CoefC

\* C4 as stated: when the system is under-determined or has several
\* solutions (two identical curves included), equilibrio fails with the
\* "multiple equilibria" ErrorEquilibrio.
C4_Multiples ==
    (ultima.op = "equilibrio" /\ CurvasIdenticas) =>
        /\ ultima.res.st = "exc"
        /\ ultima.res.exc = "ErrorEquilibrio"
        /\ ultima.res.det = "existen varios equilibrios"

\* C5 as stated: equilibrio either returns a mapping or raises
\* ErrorEquilibrio; no other exception type escapes from it.
C5_SoloErrorEquilibrio ==
    ultima.op = "equilibrio" =>
        (ultima.res.st = "ok" \/ ultima.res.exc = "ErrorEquilibrio")

CurvaDe(c) == IF c = "demanda" THEN demanda ELSE oferta

\* The equation of the curve contains the symbol.
ContieneQ(curva) == ~curva.expresion.esNone /\ ~RIsZero(curva.expresion.q)
ContieneP(curva) == ~curva.expresion.esNone /\ ~RIsZero(curva.expresion.p)

\* The last call is cantidad(P*) on one of the curves, P* being the price
\* that equilibrio has just returned.
CantidadEnEquilibrio ==
    /\ ultima.op = "cantidad"
    /\ previa.op = "equilibrio"
    /\ previa.res.st = "ok"
    /\ ultima.a1 = Num(previa.res.v1)

\* C6 as stated: whenever equilibrio succeeds with (P*, Q*), cantidad(P*)
\* of the demand and of the supply both return Q*.
C6_Original ==
    CantidadEnEquilibrio =>
        (ultima.res.st = "ok" /\ ultima.res.v1 = previa.res.v2)

\* C6 amended: cantidad(P*) returns Q* when P* > 0 and the curve's equation
\* contains Q; for P* = 0 cantidad refuses the price with ErrorValidacion,
\* as it does for a curve from which Q cannot be isolated.
C6_Simetria ==
    CantidadEnEquilibrio =>
        IF RLt(Zero, previa.res.v1) /\ ContieneQ(CurvaDe(ultima.curva))
        THEN ultima.res.st = "ok" /\ ultima.res.v1 = previa.res.v2
        ELSE ultima.res.st = "exc" /\ ultima.res.exc = "ErrorValidacion"

C6_Witness ==
    /\ CantidadEnEquilibrio
    /\ ultima.curva = "oferta"
    /\ RLt(Zero, previa.res.v1)
    /\ RLt(Zero, previa.res.v2)
    /\ ultima.res.st = "ok"
    /\ ultima.res.v1 = previa.res.v2

\* The last call is precio(q) on the curve whose cantidad(p) has just
\* returned q, and the curve is a line that contains both P and Q.
IdaYVuelta ==
    /\ ultima.op = "precio"
    /\ previa.op = "cantidad"
    /\ previa.res.st = "ok"
    /\ ultima.curva = previa.curva
    /\ ultima.a1 = Num(previa.res.v1)
    /\ ContieneQ(CurvaDe(ultima.curva))
    /\ ContieneP(CurvaDe(ultima.curva))

\* The quantity f(p) on the line, before any clamping.
CantidadSinRecorte(curva, p) ==
    LET e == curva.expresion
    IN  RNeg(RDiv(RAdd(RMul(e.p, p), e.k), e.q))

\* C7 as stated: precio(cantidad(p)) == p for every admissible price p
\* accepted by cantidad, for an invertible curve.
C7_Original ==
    IdaYVuelta => (ultima.res.st = "ok" /\ ultima.res.v1 = previa.a1.r)

\* C7 amended: precio(cantidad(p)) = p for every accepted price p at which
\* the line's quantity f(p) is non-negative; where f(p) < 0 cantidad returns
\* 0 and precio(0) succeeds with a price different from p.
C7_IdaYVuelta ==
    IdaYVuelta =>
        /\ ultima.res.st = "ok"
        /\ IF RGe0(CantidadSinRecorte(CurvaDe(ultima.curva), previa.a1.r))
           THEN ultima.res.v1 = previa.a1.r
           ELSE previa.res.v1 = Zero /\ ultima.res.v1 # previa.a1.r

C7_Witness ==
    /\ IdaYVuelta
    /\ ultima.curva = "demanda"
    /\ RLt(Zero, previa.res.v1)
    /\ ultima.res.st = "ok"
    /\ ultima.res.v1 = previa.a1.r

\* The call was refused by the argument validation, before any solving.
Rechazada(nombre) ==
    /\ ultima.res.st = "exc"
    /\ ultima.res.exc = "ErrorValidacion"
    /\ ultima.res.det = nombre
    /\ ~ultima.res.solved

EsPositivo(a) == a.t = "num" /\ RLt(Zero, a.r)
EsNoNegativo(a) == a.t = "num" /\ RLe(Zero, a.r)

RaizEvaluada ==
    LET e == CurvaDe(ultima.curva).expresion
    IN  IF ultima.op = "cantidad"
        THEN floatExpr(subs(solve(e, "Q").sols[1], "P", ultima.a1.r)).v
        ELSE floatExpr(subs(solve(e, "P").sols[1], "Q", ultima.a1.r)).v

\* C9: the value returned by cantidad and by precio is never negative: it
\* is the evaluated first root v when v >= 0, and 0 otherwise.
C9_Recorte ==
    (ultima.op \in {"cantidad", "precio"} /\ ultima.res.st = "ok") =>
        /\ RGe0(ultima.res.v1)
        /\ ultima.res.v1 = (IF RLt(RaizEvaluada, Zero) THEN Zero ELSE RaizEvaluada)

C9_Witness ==
    /\ ultima.op = "cantidad"
    /\ ultima.curva = "demanda"
    /\ ultima.res.st = "ok"
    /\ RLt(RaizEvaluada, Zero)
    /\ ultima.res.v1 = Zero

\* dQ/dP of the curve solved for Q.
Pendiente(curva) == RNeg(RDiv(curva.expresion.p, curva.expresion.q))

\* C10: elasticidadPrecio(precio, cantidad) raises ErrorValidacion, before
\* solving, when either argument is zero or negative; with both positive it
\* returns dQ/dP * (precio / cantidad) for a curve that can be solved for Q.
\* Q = 100 - 2P at (10, 80) gives -1/4 and Q = -20 + 3P at (15, 25) gives 9/5.
C10_Elasticidad ==
    ultima.op = "elasticidadPrecio" =>
        /\ ~EsPositivo(ultima.a1) => Rechazada("precio")
        /\ (EsPositivo(ultima.a1) /\ ~EsPositivo(ultima.a2)) => Rechazada("cantidad")
        /\ (EsPositivo(ultima.a1) /\ EsPositivo(ultima.a2)
              /\ ContieneQ(CurvaDe(ultima.curva))) =>
              /\ ultima.res.st = "ok"
              /\ ultima.res.v1 = RMul(Pendiente(CurvaDe(ultima.curva)),
                                      RDiv(ultima.a1.r, ultima.a2.r))
        /\ (ultima.curva = "demanda" /\ demanda.ecuacionOriginal = EcDemandaDoc
              /\ ultima.a1 = Num(<<10, 1>>) /\ ultima.a2 = Num(<<80, 1>>)) =>
              ultima.res.v1 = <<-1, 4>>
        /\ (ultima.curva = "oferta" /\ oferta.ecuacionOriginal = EcOfertaDoc
              /\ ultima.a1 = Num(<<15, 1>>) /\ ultima.a2 = Num(<<25, 1>>)) =>
              ultima.res.v1 = <<9, 5>>

C10_Witness ==
    /\ ultima.op = "elasticidadPrecio"
    /\ ultima.curva = "oferta"
    /\ oferta.ecuacionOriginal = EcOfertaDoc
    /\ ultima.a1 = Num(<<15, 1>>)
    /\ ultima.a2 = Num(<<25, 1>>)
    /\ ultima.res.st = "ok"
    /\ ultima.res.v1 = <<9, 5>>

\* The curve of the last call is written "Q = k + mP".
CurvaLineal == EsLineal(CurvaDe(ultima.curva).ecuacionOriginal)
\* Its slope m.
PendienteTexto == CurvaDe(ultima.curva).ecuacionOriginal[2].p

\* elasticidadPrecio was called with an accepted (precio, cantidad).
ElasticidadAceptada ==
    /\ ultima.op = "elasticidadPrecio"
    /\ EsPositivo(ultima.a1)
    /\ EsPositivo(ultima.a2)
    /\ CurvaLineal

\* C11: for a linear demand Q = a - bP with b > 0 elasticidadPrecio returns
\* a negative number, and for a linear supply Q = c + dP with d > 0 a
\* positive number, at every accepted (precio, cantidad).
C11_Signo ==
    /\ (ElasticidadAceptada /\ ultima.curva = "demanda" /\ PendienteTexto < 0) =>
          (ultima.res.st = "ok" /\ RLt(ultima.res.v1, Zero))
    /\ (ElasticidadAceptada /\ ultima.curva = "oferta" /\ PendienteTexto > 0) =>
          (ultima.res.st = "ok" /\ RLt(Zero, ultima.res.v1))

C11_Witness ==
    /\ ElasticidadAceptada
    /\ ultima.curva = "demanda"
    /\ demanda.ecuacionOriginal = EcDemandaDoc
    /\ ultima.a1 = Num(<<10, 1>>)
    /\ ultima.res.st = "ok"
    /\ RLt(ultima.res.v1, Zero)

\* interpretarElasticidad returned a text; e is the elasticity it is about.
Interpretada == ultima.op = "interpretarElasticidad" /\ ultima.res.st = "ok"
ElasticidadInterpretada ==
    RMul(Pendiente(CurvaDe(ultima.curva)), RDiv(ultima.a1.r, ultima.a2.r))

EtiquetaPorAbs(e) ==
    IF RLt(One, RAbs(e)) THEN "ELÁSTICA"
    ELSE IF RLt(RAbs(e), One) THEN "INELÁSTICA" ELSE "UNITARIA"
EtiquetaPorValor(e) ==
    IF RLt(One, e) THEN "ELÁSTICA"
    ELSE IF RLt(e, One) THEN "INELÁSTICA" ELSE "UNITARIA"

\* C12 as stated: both classes label by |e| against 1, whatever the sign.
C12_Original ==
    Interpretada => ultima.res.det = EtiquetaPorAbs(ElasticidadInterpretada)

\* C12 amended: Demanda labels by |e| against 1 whatever the sign of e;
\* Oferta labels by the signed value: above 1 elastic, below 1 (every
\* negative value included) inelastic, equal to 1 unitary.
C12_Interpretacion ==
    Interpretada =>
        IF ultima.curva = "demanda"
        THEN ultima.res.det = EtiquetaPorAbs(ElasticidadInterpretada)
        ELSE ultima.res.det = EtiquetaPorValor(ElasticidadInterpretada)

C12_Witness ==
    /\ Interpretada
    /\ ultima.curva = "oferta"
    /\ RLt(ElasticidadInterpretada, Zero)
    /\ RAbs(ElasticidadInterpretada) = One
    /\ ultima.res.det = "INELÁSTICA"

\* The sign of the value is not the one its tipo expects.
SignoAnomalo ==
    \/ ultima.curva = "demanda" /\ RLt(Zero, ultima.a1.r)
    \/ ultima.curva = "oferta" /\ RLt(ultima.a1.r, Zero)

\* C13: validarElasticidad returns every finite number unchanged, with a
\* warning exactly when tipo is 'demanda' and the value positive or tipo is
\* 'oferta' and the value negative; it raises ErrorValidacion only for a
\* value that is non-numeric, NaN or infinite.
C13_NoFatal ==
    ultima.op = "validarElasticidad" =>
        IF ultima.a1.t = "num"
        THEN /\ ultima.res.st = "ok"
             /\ ultima.res.v1 = ultima.a1.r
             /\ (ultima.res.det = "UserWarning") <=> SignoAnomalo
        ELSE /\ ultima.res.st = "exc"
             /\ ultima.res.exc = "ErrorValidacion"
             /\ ultima.res.det = "elasticidad"

C13_Witness ==
    /\ ultima.op = "validarElasticidad"
    /\ ultima.curva = "demanda"
    /\ ultima.a1 = Num(One)
    /\ ultima.res.st = "ok"
    /\ ultima.res.det = "UserWarning"
    /\ ultima.res.v1 = One

\* excedentes returned a mapping.
ExcedentesDevueltos == ultima.op = "excedentes" /\ ultima.res.st = "ok"

\* C14: in every mapping returned by excedentes, 'ES' equals 'EC' + 'EP'
\* exactly.
C14_SumaExacta ==
    ExcedentesDevueltos =>
        ultima.res.ES = RAdd(ultima.res.EC, ultima.res.EP)

\* excedentes is called right after equilibrio has returned (P*, Q*), and
\* is evaluated at that point: left to its default or handed P* and Q*.
EnEquilibrio ==
    /\ ultima.op = "excedentes"
    /\ previa.op = "equilibrio"
    /\ previa.res.st = "ok"
    /\ ultima.a1 \in {PyNone, Num(previa.res.v1)}
    /\ ultima.a2 \in {PyNone, Num(previa.res.v2)}

\* The areas of the two triangles: Q*^2 / (2b) and Q*^2 / (2d).
Triangulo(pendiente) ==
    RDiv(RMul(previa.res.v2, previa.res.v2), Int2Rat(2 * pendiente))

\* C15: for a linear pair Q = a - bP, Q = c + dP with b > 0 and d > 0 on
\* which equilibrio succeeds, excedentes at that equilibrium returns
\* EC >= 0 and EP >= 0 (the triangles Q*^2/(2b) and Q*^2/(2d), rounded).
C15_NoNegativos ==
    (EnEquilibrio /\ AmbasLineales /\ CoefB > 0 /\ CoefD > 0) =>
        /\ ultima.res.st = "ok"
        /\ RGe0(ultima.res.EC)
        /\ RGe0(ultima.res.EP)
        /\ ultima.res.EC = Redondear2(Triangulo(CoefB))
        /\ ultima.res.EP = Redondear2(Triangulo(CoefD))

C15_Witness ==
    /\ EnEquilibrio
    /\ demanda.ecuacionOriginal = EcDemandaDoc
    /\ oferta.ecuacionOriginal = EcOfertaDoc
    /\ ultima.a1 = PyNone
    /\ ultima.a2 = PyNone
    /\ ultima.res.st = "ok"
    /\ ultima.res.EC = <<676, 1>>
    /\ ultima.res.EP = <<45067, 100>>

\* C16: the returned 'P' and 'Q' are the P* and Q* of equilibrio when the
\* caller gave neither, and a precio or a cantidad that the caller gave is
\* the one returned.
C16_SoloLoQueFalta ==
    ExcedentesDevueltos =>
        /\ (ultima.a1 = PyNone /\ ultima.a2 = PyNone /\ previa.op = "equilibrio") =>
              (ultima.res.v1 = previa.res.v1 /\ ultima.res.v2 = previa.res.v2)
        /\ ultima.a1.t = "num" => ultima.res.v1 = ultima.a1.r
        /\ ultima.a2.t = "num" => ultima.res.v2 = ultima.a2.r

\* The exception is the surplus-computation error.
Envuelta ==
    /\ ultima.res.st = "exc"
    /\ ultima.res.exc = "ErrorValidacion"
    /\ ultima.res.det = "excedentes"

ExcedentesFalla == ultima.op = "excedentes" /\ ultima.res.st = "exc"
UsaEquilibrio == ultima.a1 = PyNone \/ ultima.a2 = PyNone

Resta(l, r) == Expr(Int2Rat(l.q - r.q), Int2Rat(l.p - r.p), Int2Rat(l.k - r.k))

\* C18: a text with one '=' whose two sides parse becomes the expression
\* left - (right); a text without '=' that parses becomes its expression.
C18_FormaImplicita ==
    \A curva \in {demanda, oferta} :
        LET ec == curva.ecuacionOriginal
        IN  /\ (Len(ec) = 2 /\ ~ec[1].malo /\ ~ec[2].malo) =>
                  curva.expresion = Resta(ec[1], ec[2])
            /\ (Len(ec) = 1 /\ ~ec[1].malo) =>
                  curva.expresion = Resta(ec[1], Lado(0, 0, 0))

\* "P = 2 - Q" became Q + P - 2 and "Q - P + 1" stayed as it is: the supply
\* evaluated at P = 1 gives Q = 0.
C18_Witness ==
    /\ demanda.ecuacionOriginal = EcInversa
    /\ demanda.expresion = Expr(One, One, <<-2, 1>>)
    /\ oferta.ecuacionOriginal = EcSinIgual
    /\ oferta.expresion = Expr(One, RNeg(One), One)
    /\ ultima.op = "cantidad"
    /\ ultima.curva = "oferta"
    /\ ultima.a1 = Num(One)
    /\ ultima.res.st = "ok"
    /\ ultima.res.v1 = Zero

\* C19: for every text with more than one '=' the normalizer fails: it
\* produces no expression.
C19_MasDeUnIgual ==
    \A curva \in {demanda, oferta} :
        Len(curva.ecuacionOriginal) > 2 => curva.expresion.esNone

\* latex2sympy raises on the text that translatex hands to it.
FallaLatex(ec) == ec[1].malo \/ (Len(ec) > 1 /\ ec[2].malo)
Fallas(ec) == IF FallaLatex(ec) THEN 1 ELSE 0

\* C20: translatex never raises: a text the parser fails on leaves the
\* constructed curve with expresion = None and one diagnostic printed, and
\* every other text leaves an expression and prints nothing.
C20_NuncaLanza ==
    /\ \A curva \in {demanda, oferta} :
          curva.expresion.esNone <=> FallaLatex(curva.ecuacionOriginal)
    /\ Len(consola) = Fallas(demanda.ecuacionOriginal) + Fallas(oferta.ecuacionOriginal)
    /\ \A i \in 1..Len(consola) : consola[i] = "Error en el Parser"

\* The demand was built from a side the grammar rejects: the object exists
\* with expresion = None, and the failure surfaces at the first call.
C20_Witness ==
    /\ demanda.ecuacionOriginal = EcLadoIlegible
    /\ demanda.expresion.esNone
    /\ ~oferta.expresion.esNone
    /\ consola = <<"Error en el Parser">>
    /\ ultima.op = "equilibrio"
    /\ ultima.res.st = "exc"
    /\ ultima.res.exc = "ErrorEquilibrio"

(* ------------------------------- IS-LM --------------------------------- *)
\* The call reached the assembly of the IS and LM equations.
Ensambladas ==
    /\ islm.op = "equilibrio"
    /\ ~(islm.res.st = "exc" /\ islm.res.paso = "renombrar")

\* C21: once ISLM.equilibrio has renamed the interest-rate symbols, none of
\* r, rho and rate is free in the IS and LM equations that are solved.
C21_Renombrados ==
    Ensambladas =>
        \A s \in {"r", "rho", "rate"} :
            /\ RIsZero(islm.res.ecuacionIS.c[s])
            /\ RIsZero(islm.res.ecuacionLM.c[s])

\* The solve of the assembled system, as the call made it.
TasaDe(op) == IF op = "equilibrio" THEN "i" ELSE "r"
SolucionISLM == solveISLM(islm.res.ecuacionIS, islm.res.ecuacionLM, TasaDe(islm.op))
Resuelta ==
    /\ islm.op \in {"equilibrio", "equilibrium"}
    /\ ~(islm.res.st = "exc" /\ islm.res.paso \in {"renombrar", "ensamblar"})

\* C22: a solve that returns no solution fails with ErrorEquilibrio, and no
\* other exception type leaves the solve-and-extract step, whatever the
\* solver returns.
C22_SoloErrorEquilibrio ==
    Resuelta =>
        /\ SolucionISLM.tipo = "vacia" =>
              islm.res.st = "exc" /\ islm.res.exc = "ErrorEquilibrio"
        /\ (islm.res.st = "exc" /\ islm.res.paso \in {"resolver", "extraer"}) =>
              islm.res.exc = "ErrorEquilibrio"

\* The documented scenario: C = 200 + 0.8(Y - T), I = 1000 - 50r,
\* L = 0.25Y - 50r, G = 900, T = 800, M = 3400, P = 1.
EscenarioDoc ==
    /\ islm.op \in {"equilibrio", "equilibrium"}
    /\ islm.consumo = <<LadoM(Simbolo("C").c, FALSE), LadoM(FuncionConsumo, FALSE)>>
    /\ islm.inversion = <<LadoM(Simbolo("I").c, FALSE), LadoM(FuncionInversion("r"), FALSE)>>
    /\ islm.demandaDinero = <<LadoM(Simbolo("L").c, FALSE), LadoM(FuncionDinero("r"), FALSE)>>
    /\ islm.G = Int2Rat(900) /\ islm.T = Int2Rat(800)
    /\ islm.M = Int2Rat(3400) /\ islm.P = One

\* Texts that are linear behavioural equations with the rate written r.
EcuacionesDeComportamiento ==
    /\ islm.op \in {"equilibrio", "equilibrium"}
    /\ \A t \in {islm.consumo, islm.inversion, islm.demandaDinero} :
          \A k \in 1..Len(t) : ~t[k].malo /\ ~t[k].cuad
    /\ \A t \in {islm.consumo, islm.inversion, islm.demandaDinero} :
          \A k \in 1..Len(t) : \A s \in {"rho", "rate", "i", "MP"} : RIsZero(t[k].c[s])
    /\ \E k \in 1..Len(islm.inversion) : ~RIsZero(islm.inversion[k].c["r"])
    /\ \E k \in 1..Len(islm.demandaDinero) : ~RIsZero(islm.demandaDinero[k].c["r"])

\* C23: for linear behavioural equations the solver returns a result with
\* Y* = C* + I* + G, and for the documented scenario Y* = 10800, r* = -14 and
\* k = m = 20/9.
C23_Identidades ==
    /\ EcuacionesDeComportamiento =>
          /\ islm.res.st = "ok"
          /\ islm.op = "equilibrio" =>
                islm.res.Y = RAdd(RAdd(islm.res.C, islm.res.I), islm.G)
    /\ EscenarioDoc =>
          /\ islm.res.st = "ok"
          /\ islm.res.Y = Int2Rat(10800)
          /\ islm.res.r = Int2Rat(-14)
          /\ islm.res.k = Rat(20, 9)
          /\ islm.res.m = Rat(20, 9)

\* The same functions written without a left-hand side do give the
\* documented values.
C23_SinLadoIzquierdo ==
    (/\ islm.op \in {"equilibrio", "equilibrium"}
     /\ islm.consumo = <<LadoM(FuncionConsumo, FALSE)>>
     /\ islm.inversion = <<LadoM(FuncionInversion("r"), FALSE)>>
     /\ islm.demandaDinero = <<LadoM(FuncionDinero("r"), FALSE)>>
     /\ islm.G = Int2Rat(900) /\ islm.P = One)
    => /\ islm.res.st = "ok"
       /\ islm.res.Y = Int2Rat(10800)
       /\ islm.res.r = Int2Rat(-14)
       /\ islm.res.k = Rat(20, 9)
       /\ islm.res.m = Rat(20, 9)

(* ----------------------------- English API ----------------------------- *)
\* Both curves hold at price p and quantity q.
Cruce(supply, demand, p, q) ==
    /\ ~supply.expr.esNone /\ ~demand.expr.esNone
    /\ EsCero(subs(subs(supply.expr, "P", p), "Q", q))
    /\ EsCero(subs(subs(demand.expr, "P", p), "Q", q))

\* C25: a successful equilibrium(supply, demand) returns (price, quantity),
\* and the marker that marketGraph and surplusGraph draw from it is at the
\* price and the quantity where the curves cross.
C25_PrecioPrimero ==
    /\ (/\ grafica.op = "equilibrium"
        /\ grafica.res.st = "ok"
        /\ grafica.res.valor.items[1].t = "num")
       => Cruce(grafica.supply, grafica.demand,
                grafica.res.valor.items[1].r, grafica.res.valor.items[2].r)
    /\ (/\ grafica.op \in {"marketGraph", "surplusGraph"}
        /\ grafica.res.figura.dibujada)
       => Cruce(grafica.supply, grafica.demand,
                grafica.res.figura.y.r, grafica.res.figura.x.r)

\* C26: marketGraph returns a pair (fig, ax) and surplusGraph a triple
\* (fig, ax, surplus); both return for the curves of test/test.py.
C26_Devuelven ==
    /\ (grafica.op = "marketGraph" /\ grafica.res.st = "ok")
       => grafica.res.valor.t = "tuple" /\ Len(grafica.res.valor.items) = 2
    /\ (grafica.op = "surplusGraph" /\ grafica.res.st = "ok")
       => grafica.res.valor.t = "tuple" /\ Len(grafica.res.valor.items) = 3
    /\ (/\ grafica.op \in {"marketGraph", "surplusGraph"}
        /\ grafica.supply = Supply(Int2Rat(10), Int2Rat(2))
        /\ grafica.demand = Demand(Int2Rat(100), Int2Rat(3)))
       => grafica.res.st = "ok"

(* --------------------------- immutable curves -------------------------- *)
\* The call just made is the call made before it: same operation, same curve,
\* same arguments.
MismaLlamada ==
    /\ ultima.op # "ninguna"
    /\ ultima'.op = ultima.op
    /\ ultima'.curva = ultima.curva
    /\ ultima'.a1 = ultima.a1
    /\ ultima'.a2 = ultima.a2

CacheEstable ==
    /\ \A k \in DOMAIN memo.antes :
          k \in DOMAIN memo.cache /\ memo.cache[k] = memo.antes[k]
    /\ memo.ultima.clave \in DOMAIN memo.antes =>
          /\ ~memo.ultima.invocada
          /\ memo.ultima.st = "ok"
          /\ memo.ultima.v = memo.antes[memo.ultima.clave]
    /\ memo.ultima.st = "exc" => memo.cache = memo.antes

\* C27 as stated: the wrapped function is invoked at most once per key.
C27_Original ==
    /\ \A k \in Claves : memo.invocaciones[k] <= 1
    /\ CacheEstable

\* C27: the wrapped function returns at most once per key, it is not invoked
\* for a key that has a stored value, a call that raises stores nothing and
\* the cache only grows.
C27_Cache ==
    /\ \A k \in Claves :
          /\ memo.retornos[k] <= 1
          /\ memo.retornos[k] = (IF k \in DOMAIN memo.cache THEN 1 ELSE 0)
    /\ CacheEstable

\* Calls with the same key have been made after a first one that returned:
\* the function ran once for the key and the later call got the stored value.
C27_Witness ==
    /\ memo.ultima.clave \in DOMAIN memo.antes
    /\ ~memo.ultima.invocada
    /\ memo.invocaciones[memo.ultima.clave] = 1
    /\ memo.ultima.v # memo.reloj + 1
    /\ \E k \in Claves : memo.invocaciones[k] > 1

(* --------------------------- validarEconomico -------------------------- *)
\* The value satisfies the rule configured for a parameter.
Cumple(v, valor) ==
    /\ valor.t = "num"
    /\ CASE v.tipo = "positivo" -> RLt(Zero, valor.r)
         [] v.tipo = "no_negativo" -> RLe(Zero, valor.r)
         [] v.tipo = "propension" -> RLe(Zero, valor.r) /\ RLe(valor.r, One)
         [] v.tipo = "tuple" -> RLe(v.min.r, valor.r) /\ RLe(valor.r, v.max.r)

\* The values the call passed, positionally or by keyword.
Pasados == args_dict(decorada.args, decorada.kwargs)

\* C28 as stated: the wrapped function runs only with parameters that
\* satisfy their rules, whether passed positionally, by keyword or left at
\* their default, and a passed value that violates its rule gives
\* ErrorValidacion without running it.
C28_Original ==
    decorada # SinDecorada =>
        /\ decorada.res.ejecutada =>
              \A k \in 1..Len(validaciones) :
                  Cumple(validaciones[k], decorada.res.recibidos[validaciones[k].nombre])
        /\ (\E k \in 1..Len(validaciones) :
               /\ validaciones[k].nombre \in DOMAIN Pasados
               /\ ~Cumple(validaciones[k], Pasados[validaciones[k].nombre]))
           => /\ decorada.res.st = "exc"
              /\ decorada.res.exc = "ErrorValidacion"
              /\ ~decorada.res.ejecutada

\* C28: the wrapped function runs only if every parameter passed
\* positionally or by keyword satisfies its rule; a passed value that violates
\* its rule gives ErrorValidacion and the function is not run.
C28_Pasados ==
    decorada # SinDecorada =>
        /\ decorada.res.ejecutada =>
              \A k \in 1..Len(validaciones) :
                  validaciones[k].nombre \in DOMAIN Pasados =>
                      Cumple(validaciones[k], Pasados[validaciones[k].nombre])
        /\ (\E k \in 1..Len(validaciones) :
               /\ validaciones[k].nombre \in DOMAIN Pasados
               /\ ~Cumple(validaciones[k], Pasados[validaciones[k].nombre]))
           => /\ decorada.res.st = "exc"
              /\ decorada.res.exc = "ErrorValidacion"
              /\ ~decorada.res.ejecutada

\* A value passed by keyword violates its rule: func(1, pmc=2) raises
\* ErrorValidacion for pmc and func has not run.
C28_Witness ==
    /\ decorada.args = <<Num(One)>>
    /\ DOMAIN decorada.kwargs = {"pmc"}
    /\ decorada.kwargs["pmc"] = Num(Int2Rat(2))
    /\ decorada.res.st = "exc"
    /\ decorada.res.exc = "ErrorValidacion"
    /\ decorada.res.det = "pmc"
    /\ ~decorada.res.ejecutada

(* ------------------------------- Lienzo -------------------------------- *)
MetodosAgregar ==
    { "agregar", "agregarPunto", "agregarLineaVertical",
      "agregarLineaHorizontal", "agregarRelleno" }

\* The kind of element each method stores.
TipoDe(op) ==
    CASE op = "agregar" -> "curva"
      [] op = "agregarPunto" -> "punto"
      [] op = "agregarLineaVertical" -> "linea_vertical"
      [] op = "agregarLineaHorizontal" -> "linea_horizontal"
      [] op = "agregarRelleno" -> "relleno"

\* The lists of the quadrants other than q.
OtrasListas(l, q) ==
    [c \in DOMAIN l.funciones_por_cuadrante \ {q} |->
        l.funciones_por_cuadrante[c].funciones]

Celdas(l) ==
    IF l.matriz = Nada THEN {}
    ELSE { <<f, c>> : f \in 0..(l.matriz[1] - 1), c \in 0..(l.matriz[2] - 1) }

\* C30: cuadrante raises ValueError on a canvas without matriz and on a row
\* or a column outside the matrix; when it raises, the current quadrant,
\* the current labels and ranges and the quadrants' dictionary are left as
\* they were, so the selected quadrant is always None or a cell of the
\* matrix.
C30_Rechaza ==
    [][ /\ ( lienzo'.ultima.op = "cuadrante" /\ lienzo'.ultima.st = "exc" )
           => /\ lienzo'.ultima.exc = "ValueError"
              /\ [lienzo' EXCEPT !.ultima = lienzo.ultima] = lienzo
        /\ ( lienzo'.ultima.op = "cuadrante" /\ lienzo.matriz = Nada )
           => lienzo'.ultima.st = "exc"
        /\ \A fila \in 0..2, columna \in 0..3 :
              ( /\ lienzo.matriz # Nada
                /\ ~ ( fila \in 1..lienzo.matriz[1] /\ columna \in 1..lienzo.matriz[2] ) )
              => LET r == Lienzo_cuadrante(lienzo, fila, columna, "None", "None")
                 IN  r.ultima.st = "exc" /\ r.ultima.exc = "ValueError"
        /\ lienzo'.cuadrante_actual \in {Nada} \cup Celdas(lienzo')
      ]_vars

\* A call was rejected on a canvas whose quadrant (0, 1) is selected, titled
\* and holds an element, with a range set.
C30_Witness ==
    /\ lienzo.ultima = [op |-> "cuadrante", st |-> "exc", exc |-> "ValueError"]
    /\ lienzo.cuadrante_actual = <<0, 1>>
    /\ lienzo.titulo = "T"
    /\ lienzo.rangoX = <<0, 10>>
    /\ Len(lienzo.funciones_por_cuadrante[<<0, 1>>].funciones) = 1

====
